---- MODULE Spec2Model ----
(***************************************************************************)
(* Authorization / session-validation core of the multi-tenant backend:    *)
(* the JWT lifecycle (app/core/utils.py, app/blueprints/auth), the tenant  *)
(* middleware (app/core/middleware.py) and the permission aggregator       *)
(* (app/core/decorators.py).                                               *)
(*                                                                         *)
(* Time is counted in ticks; TicksPerSecond ticks make one second.  JWT    *)
(* iat/exp claims have second resolution (PyJWT truncates datetimes to     *)
(* whole seconds), database timestamps (datetime.utcnow) keep the ticks.   *)
(***************************************************************************)
EXTENDS Integers, FiniteSets, Sequences, TLC

\* ---------------------------------------------------------------- bounds

\* Clock cap, in ticks.
MaxTime == 4

\* Sub-second resolution of the clock.
TicksPerSecond == 2

\* Token pairs issued in one behaviour.
MaxPairs == 2

\* Rows of users, tenants and tenant_users that may differ from the seeded data.
MaxDrift == 2

\* UserRoleAssignment rows in the table.
MaxAssignments == 2

\* Length of a role_ids list in a request body.
MaxRoleIds == 2

\* Rows in the user_invitations table.
MaxInvitations == 1

\* Token lifetimes in seconds, scaled down from config.py (3600 s / 2592000 s).
JWT_ACCESS_TOKEN_EXPIRES == 1

JWT_REFRESH_TOKEN_EXPIRES == 2

\* ---------------------------------------------------------------- universe

UserIds == {"u1", "u2"}

TenantIds == {"t1", "t2"}

StoreIds == {"sA", "sB"}

\* Stores that a request of tenant t1 must not reach: sC belongs to tenant t2, sD is
\* soft-deleted, sE is inactive.
OtherStoreIds == {"sC", "sD", "sE"}

RoleIds == {"r1", "r2", "r3"}

PermissionNames == {"products.view", "products.create"}

\* Python's None where a string is expected (an absent id or error).
None == "None"

\* Values of the X-Store-ID header: absent, empty, not a UUID, a UUID of no store,
\* or the id of a store.
StoreHeaders == {None, "", "not-a-uuid", "s0"} \cup StoreIds \cup OtherStoreIds

\* Python's None where a timestamp is expected (no row, no value).
NoTime == -1

\* A request without an Authorization header (or one not of the form "Bearer <x>").
NoHeader == [type |-> "absent"]

\* A bearer string that is not a token signed with JWT_SECRET_KEY.
Garbage == [type |-> "garbage"]

\* The payload of a token that did not decode.
NoPayload == [type |-> "none"]

TenantStatus == {"trial", "active", "suspended", "canceled"}

\* Requests served at the same time (worker threads or processes).
CallerIds == {"c1", "c2"}

VARIABLES
    now,                     \* wall clock, in ticks
    users,                   \* users table: id -> [is_active]
    tenants,                 \* tenants table: id -> [status, deleted]
    tenant_users,            \* tenant_users table: set of <<user_id, tenant_id>>
    tokens,                  \* every token signed so far (what clients may present)
    blacklisted_tokens,      \* blacklisted_tokens table: set of rows
    user_token_revocations,  \* user_token_revocations table: user_id -> revoked_at | NoTime
    resp,                    \* the response to the request just handled, if any
    user_roles,              \* user_roles table: set of rows
    role_permissions,        \* role_permissions table: set of <<role_id, permission name>>
    perm_result,             \* the last result of get_user_permissions
    deleted_roles,           \* roles table: ids of the rows whose deleted_at is set
    stores,                  \* stores table: id -> [tenant_id, deleted, is_active]
    store_users,             \* store_users table: set of <<user_id, store_id, tenant_id>>
    user_invitations,        \* user_invitations table: set of rows
    revocation_calls,        \* revoke_all_tokens calls in progress: caller -> position
    assignment_calls,        \* assign_role_to_user calls in progress: caller -> position
    cleanup_calls,           \* cleanup_expired_tokens runs in progress: caller -> position
    signup_calls             \* bootstrap / register calls in progress: caller -> position

vars == <<now, users, tenants, tenant_users, tokens, blacklisted_tokens,
          user_token_revocations, resp, user_roles, role_permissions,
          perm_result, deleted_roles, stores, store_users, user_invitations,
          revocation_calls, assignment_calls, cleanup_calls,
          signup_calls>>

authVars == <<now, users, tenants, tenant_users, tokens, blacklisted_tokens,
              user_token_revocations, resp>>

\* Roles, stores and invitations as the admin routes and tools leave them.
catalogVars == <<deleted_roles, stores, store_users, user_invitations>>

rbacVars == <<user_roles, role_permissions, perm_result, deleted_roles, stores, store_users,
              user_invitations>>

\* Requests that are part-way through a read-then-write on the database.
procVars == <<revocation_calls, assignment_calls, cleanup_calls, signup_calls>>

\* ---------------------------------------------------------------- tokens

\* PyJWT encodes a datetime claim as whole seconds since the epoch.
ToSeconds(t) == (t \div TicksPerSecond) * TicksPerSecond

generate_access_token(jti, user_id, tenant_id) ==
    [jti |-> jti, user_id |-> user_id, tenant_id |-> tenant_id, type |-> "access",
     iat |-> ToSeconds(now),
     exp |-> ToSeconds(now + JWT_ACCESS_TOKEN_EXPIRES * TicksPerSecond)]

generate_refresh_token(jti, user_id, tenant_id) ==
    [jti |-> jti, user_id |-> user_id, tenant_id |-> tenant_id, type |-> "refresh",
     iat |-> ToSeconds(now),
     exp |-> ToSeconds(now + JWT_REFRESH_TOKEN_EXPIRES * TicksPerSecond)]

\* uuid4() jti values: fresh identifiers, here the next two unused numbers.
generate_token_pair(user_id, tenant_id) ==
    LET n == Cardinality(tokens)
    IN  {generate_access_token(n + 1, user_id, tenant_id),
         generate_refresh_token(n + 2, user_id, tenant_id)}

\* decode_token without the expiry check.
decode_token_no_expiry(token) ==
    IF token \notin tokens THEN [err |-> "invalid_token", payload |-> NoPayload]
    ELSE [err |-> None, payload |-> token]

\* jwt.decode verifies the signature, then exp: ExpiredSignatureError when exp <= now.
decode_token(token) ==
    IF token \notin tokens THEN [err |-> "invalid_token", payload |-> NoPayload]
    ELSE IF token.exp <= now THEN [err |-> "token_expired", payload |-> NoPayload]
    ELSE [err |-> None, payload |-> token]

\* jwt.decode with verify_exp disabled.
get_token_payload(token) ==
    IF token \notin tokens THEN [err |-> "invalid_token", payload |-> NoPayload]
    ELSE [err |-> None, payload |-> token]

\* verify_token_type that accepts a token of either type.
verify_token_type_any(token, expected_type) ==
    decode_token(token)

verify_token_type(token, expected_type) ==
    LET d == decode_token(token)
    IN  IF d.err # None THEN d
        ELSE IF d.payload.type # expected_type
             THEN [err |-> "invalid_token", payload |-> NoPayload]
             ELSE d

\* ---------------------------------------------------------------- revocation store

is_blacklisted(jti) == \E row \in blacklisted_tokens : row.jti = jti

get_revocation_time(user_id) == user_token_revocations[user_id]

\* ---------------------------------------------------------------- middleware

\* What a client can put in the Authorization header: nothing, or "Bearer <x>".
Headers == {NoHeader, Garbage} \cup tokens

\* The token string of the header, None (NoHeader) when absent or malformed.
get_token_from_header(header) == header

NoContext == [user |-> None, tenant |-> None]

\* load_user_and_tenant without the membership lookup.
load_user_and_tenant_no_membership(user_id, tenant_id) ==
    IF user_id \notin DOMAIN users THEN [err |-> "user_not_found", g |-> NoContext]
    ELSE IF ~users[user_id].is_active THEN [err |-> "user_inactive", g |-> NoContext]
    ELSE IF tenant_id \notin DOMAIN tenants THEN [err |-> "tenant_not_found", g |-> NoContext]
    ELSE IF tenants[tenant_id].deleted THEN [err |-> "tenant_not_found", g |-> NoContext]
    ELSE IF tenants[tenant_id].status = "suspended"
         THEN [err |-> "tenant_suspended", g |-> NoContext]
    ELSE [err |-> None, g |-> [user |-> user_id, tenant |-> tenant_id]]

\* load_user_and_tenant that trusts the membership as it was when the data was seeded.
load_user_and_tenant_cached_membership(user_id, tenant_id) ==
    IF user_id \notin DOMAIN users THEN [err |-> "user_not_found", g |-> NoContext]
    ELSE IF ~users[user_id].is_active THEN [err |-> "user_inactive", g |-> NoContext]
    ELSE IF tenant_id \notin DOMAIN tenants THEN [err |-> "tenant_not_found", g |-> NoContext]
    ELSE IF tenants[tenant_id].deleted THEN [err |-> "tenant_not_found", g |-> NoContext]
    ELSE IF tenants[tenant_id].status = "suspended"
         THEN [err |-> "tenant_suspended", g |-> NoContext]
    ELSE IF <<user_id, tenant_id>> \notin {<<"u1", "t1">>, <<"u1", "t2">>, <<"u2", "t1">>}
         THEN [err |-> "tenant_access_denied", g |-> NoContext]
    ELSE [err |-> None, g |-> [user |-> user_id, tenant |-> tenant_id]]

\* load_user_and_tenant with the membership lookup ahead of the status check.
load_user_and_tenant_membership_first(user_id, tenant_id) ==
    IF user_id \notin DOMAIN users THEN [err |-> "user_not_found", g |-> NoContext]
    ELSE IF ~users[user_id].is_active THEN [err |-> "user_inactive", g |-> NoContext]
    ELSE IF tenant_id \notin DOMAIN tenants THEN [err |-> "tenant_not_found", g |-> NoContext]
    ELSE IF tenants[tenant_id].deleted THEN [err |-> "tenant_not_found", g |-> NoContext]
    ELSE IF <<user_id, tenant_id>> \notin tenant_users
         THEN [err |-> "tenant_access_denied", g |-> NoContext]
    ELSE IF tenants[tenant_id].status = "suspended"
         THEN [err |-> "tenant_suspended", g |-> NoContext]
    ELSE [err |-> None, g |-> [user |-> user_id, tenant |-> tenant_id]]

load_user_and_tenant(user_id, tenant_id) ==
    IF user_id \notin DOMAIN users THEN [err |-> "user_not_found", g |-> NoContext]
    ELSE IF ~users[user_id].is_active THEN [err |-> "user_inactive", g |-> NoContext]
    ELSE IF tenant_id \notin DOMAIN tenants THEN [err |-> "tenant_not_found", g |-> NoContext]
    ELSE IF tenants[tenant_id].deleted THEN [err |-> "tenant_not_found", g |-> NoContext]
    ELSE IF tenants[tenant_id].status = "suspended"
         THEN [err |-> "tenant_suspended", g |-> NoContext]
    ELSE IF <<user_id, tenant_id>> \notin tenant_users
         THEN [err |-> "tenant_access_denied", g |-> NoContext]
    ELSE [err |-> None, g |-> [user |-> user_id, tenant |-> tenant_id]]

\* before_request that also turns a token down when any token of its user is blacklisted.
before_request_user_blacklist(header) ==
    LET token == get_token_from_header(header)
        d == decode_token(token)
    IN  IF token = NoHeader THEN [err |-> "unauthorized", g |-> NoContext]
        ELSE IF d.err # None THEN [err |-> d.err, g |-> NoContext]
        ELSE IF d.payload.type # "access" THEN [err |-> "invalid_token", g |-> NoContext]
        ELSE IF \E row \in blacklisted_tokens : row.user_id = d.payload.user_id
             THEN [err |-> "invalid_token", g |-> NoContext]
        ELSE load_user_and_tenant(d.payload.user_id, d.payload.tenant_id)

\* before_request that compares the token type only after the user and tenant lookups.
before_request_type_last(header) ==
    LET token == get_token_from_header(header)
        d == decode_token(token)
        l == load_user_and_tenant(d.payload.user_id, d.payload.tenant_id)
    IN  IF token = NoHeader THEN [err |-> "unauthorized", g |-> NoContext]
        ELSE IF d.err # None THEN [err |-> d.err, g |-> NoContext]
        ELSE IF l.err # None THEN l
        ELSE IF d.payload.type # "access" THEN [err |-> "invalid_token", g |-> NoContext]
        ELSE l

\* before_request that turns every token down once its user has a revocation row.
before_request_revoked_user_locked_out(header) ==
    LET token == get_token_from_header(header)
        d == decode_token(token)
    IN  IF token = NoHeader THEN [err |-> "unauthorized", g |-> NoContext]
        ELSE IF d.err # None THEN [err |-> d.err, g |-> NoContext]
        ELSE IF d.payload.type # "access" THEN [err |-> "invalid_token", g |-> NoContext]
        ELSE IF get_revocation_time(d.payload.user_id) # NoTime
             THEN [err |-> "invalid_token", g |-> NoContext]
        ELSE load_user_and_tenant(d.payload.user_id, d.payload.tenant_id)

\* TenantMiddleware.before_request on a non-exempt path.
before_request(header) ==
    LET token == get_token_from_header(header)
        d == decode_token(token)
    IN  IF token = NoHeader THEN [err |-> "unauthorized", g |-> NoContext]
        ELSE IF d.err # None THEN [err |-> d.err, g |-> NoContext]
        ELSE IF d.payload.type # "access" THEN [err |-> "invalid_token", g |-> NoContext]
        ELSE IF d.payload.user_id = None \/ d.payload.tenant_id = None
             THEN [err |-> "invalid_token", g |-> NoContext]
        ELSE load_user_and_tenant(d.payload.user_id, d.payload.tenant_id)

\* HTTP status of each error code (app/core/exceptions.py).
status_code(code) ==
    CASE code = "ok" -> 200
      [] code = "created" -> 201
      [] code \in {"bad_request", "validation_error"} -> 400
      [] code = "duplicate_resource" -> 409
      [] code \in {"unauthorized", "invalid_credentials", "token_expired", "invalid_token"} -> 401
      [] code \in {"forbidden", "tenant_access_denied", "tenant_suspended", "user_inactive",
                   "store_access_denied", "insufficient_permissions"} -> 403
      [] code \in {"user_not_found", "tenant_not_found", "store_not_found", "not_found"} -> 404
      [] OTHER -> 500

\* ---------------------------------------------------------------- responses

JtiOf(header) == IF header \in tokens THEN header.jti ELSE 0

Response(op, header, code, handler, issued) ==
    [op |-> op, jti |-> JtiOf(header), code |-> code, handler |-> handler, issued |-> issued]

NoResponse == [op |-> None, jti |-> 0, code |-> None, handler |-> FALSE, issued |-> FALSE]

CanIssue == Cardinality(tokens) < 2 * MaxPairs

NoResult == [user_id |-> None, tenant_id |-> None, store_id |-> None, permissions |-> {}]

\* A worker that is not inside assign_role_to_user.
IdleAssignment == [pc |-> "idle", tenant_id |-> None, user_id |-> None, role_id |-> None,
                   store_id |-> None]

\* A worker that is not inside revoke_all_tokens.
IdleRevocation == [pc |-> "idle", user_id |-> None, record |-> FALSE, revoked_at |-> NoTime]

\* A worker that is not inside cleanup_expired_tokens; deleted is the count returned by
\* its last run.
IdleCleanup == [pc |-> "idle", cutoff |-> NoTime, deleted |-> 0]

\* A worker that is not inside bootstrap or register.
IdleSignup == [pc |-> "idle", user_id |-> None, tenant_id |-> None]

\* ---------------------------------------------------------------- initial state

\* The data after provisioning: register() creates active users, trial tenants and
\* the membership row; invitations add further memberships.
SeedUsers == [u \in UserIds |-> [is_active |-> TRUE]]

SeedTenants == [t \in TenantIds |-> [status |-> "trial", deleted |-> FALSE]]

SeedTenantUsers == {<<"u1", "t1">>, <<"u1", "t2">>, <<"u2", "t1">>}

\* stores table: sA and sB are live stores of tenant t1.
SeedStores == [s \in StoreIds \cup OtherStoreIds |->
                 [tenant_id |-> IF s = "sC" THEN "t2" ELSE "t1",
                  deleted |-> (s = "sD"),
                  is_active |-> (s # "sE")]]

\* store_users table: <<user_id, store_id, tenant_id>>.  u1 has no row for sB and u2
\* none for sA.
SeedStoreUsers == {<<"u1", "sA", "t1">>, <<"u2", "sB", "t1">>, <<"u1", "sC", "t2">>,
                   <<"u1", "sD", "t1">>, <<"u1", "sE", "t1">>}

\* Number of rows in which the given tables differ from the seeded data.
Drift(us, ts, tus) ==
    Cardinality({u \in UserIds : us[u] # SeedUsers[u]})
    + Cardinality({t \in TenantIds : ts[t] # SeedTenants[t]})
    + Cardinality((tus \ SeedTenantUsers) \cup (SeedTenantUsers \ tus))

Init ==
    /\ now = 0
    /\ users = SeedUsers
    /\ tenants = SeedTenants
    /\ tenant_users = SeedTenantUsers
    /\ tokens = {}
    /\ blacklisted_tokens = {}
    /\ user_token_revocations = [u \in UserIds |-> NoTime]
    /\ resp = NoResponse
    /\ user_roles = {}
    /\ role_permissions = {}
    /\ perm_result = NoResult
    /\ deleted_roles = {}
    /\ stores = SeedStores
    /\ store_users = SeedStoreUsers
    /\ user_invitations = {}
    /\ revocation_calls = [c \in CallerIds |-> IdleRevocation]
    /\ assignment_calls = [c \in CallerIds |-> IdleAssignment]
    /\ cleanup_calls = [c \in CallerIds |-> IdleCleanup]
    /\ signup_calls = [c \in CallerIds |-> IdleSignup]

\* ---------------------------------------------------------------- actions

Tick ==
    /\ now < MaxTime
    /\ now' = now + 1
    /\ UNCHANGED <<users, tenants, tenant_users, tokens, blacklisted_tokens,
                   user_token_revocations>>
    /\ resp' = NoResponse
    /\ UNCHANGED rbacVars
    /\ UNCHANGED procVars

\* GET /api/v1/users/me: any route behind the middleware whose handler only reads.
GetMe(header) ==
    LET r == before_request(header)
    IN  /\ resp' = IF r.err # None THEN Response("get_me", header, r.err, FALSE, FALSE)
                   ELSE Response("get_me", header, "ok", TRUE, FALSE)
        /\ UNCHANGED <<now, users, tenants, tenant_users, tokens, blacklisted_tokens,
                       user_token_revocations>>
        /\ UNCHANGED rbacVars
        /\ UNCHANGED procVars

\* POST /api/v1/auth/login (exempt path): AuthService.login.
\* pw_ok: whether the password matches the user's hash.
Login(user_id, pw_ok, tenant_id) ==
    LET code == IF ~pw_ok THEN "invalid_credentials"
                ELSE IF ~users[user_id].is_active THEN "invalid_credentials"
                ELSE IF tenant_id \notin DOMAIN tenants \/ tenants[tenant_id].deleted
                     THEN "tenant_not_found"
                ELSE IF <<user_id, tenant_id>> \notin tenant_users
                     THEN "tenant_access_denied"
                ELSE "ok"
    IN  /\ code = "ok" => CanIssue
        /\ tokens' = IF code = "ok" THEN tokens \cup generate_token_pair(user_id, tenant_id)
                     ELSE tokens
        /\ resp' = Response("login", NoHeader, code, TRUE, tokens' # tokens)
        /\ UNCHANGED <<now, users, tenants, tenant_users, blacklisted_tokens,
                       user_token_revocations>>
        /\ UNCHANGED rbacVars
        /\ UNCHANGED procVars

\* refresh_token without the is_active check on the user.
refresh_token_inactive_user_allowed(token) ==
    LET v == verify_token_type(token, "refresh")
        user_id == v.payload.user_id
        tenant_id == v.payload.tenant_id
    IN  IF v.err # None THEN v.err
        ELSE IF user_id \notin DOMAIN users THEN "invalid_token"
        ELSE IF tenant_id \notin DOMAIN tenants \/ tenants[tenant_id].deleted
             THEN "invalid_token"
        ELSE IF <<user_id, tenant_id>> \notin tenant_users THEN "invalid_token"
        ELSE "ok"

\* AuthService.refresh_token: the error code, or "ok".
refresh_token(token) ==
    LET v == verify_token_type(token, "refresh")
        user_id == v.payload.user_id
        tenant_id == v.payload.tenant_id
    IN  IF v.err # None THEN v.err
        ELSE IF user_id \notin DOMAIN users \/ ~users[user_id].is_active
             THEN "invalid_token"
        ELSE IF tenant_id \notin DOMAIN tenants \/ tenants[tenant_id].deleted
             THEN "invalid_token"
        ELSE IF <<user_id, tenant_id>> \notin tenant_users THEN "invalid_token"
        ELSE "ok"

\* POST /api/v1/auth/refresh (exempt path) with the token in the request body.
Refresh(token) ==
    LET code == refresh_token(token)
    IN  /\ code = "ok" => CanIssue
        /\ tokens' = IF code = "ok"
                     THEN tokens \cup generate_token_pair(token.user_id, token.tenant_id)
                     ELSE tokens
        /\ resp' = Response("refresh", token, code, TRUE, tokens' # tokens)
        /\ UNCHANGED <<now, users, tenants, tenant_users, blacklisted_tokens,
                       user_token_revocations>>
        /\ UNCHANGED rbacVars
        /\ UNCHANGED procVars

\* BlacklistedToken.blacklist_token followed by commit: the jti column is unique,
\* so a second row for the same jti fails the commit.
\* blacklist_token whose row never reaches the table.
blacklist_token_not_added(jti, user_id, token_type, expires_at) ==
    blacklisted_tokens

blacklist_token(jti, user_id, token_type, expires_at) ==
    IF is_blacklisted(jti) THEN blacklisted_tokens
    ELSE blacklisted_tokens \cup
         {[jti |-> jti, user_id |-> user_id, token_type |-> token_type,
           expires_at |-> expires_at]}

\* POST /api/v1/auth/logout: middleware, jwt_required, AuthService.logout.
Logout(header) ==
    LET r == before_request(header)
        p == get_token_payload(header).payload
    IN  /\ IF r.err # None
           THEN /\ resp' = Response("logout", header, r.err, FALSE, FALSE)
                /\ UNCHANGED blacklisted_tokens
           ELSE /\ blacklisted_tokens' = blacklist_token(p.jti, p.user_id, p.type, p.exp)
                /\ resp' = Response("logout", header,
                                    IF is_blacklisted(p.jti) THEN "internal_error" ELSE "ok",
                                    TRUE, FALSE)
        /\ UNCHANGED <<now, users, tenants, tenant_users, tokens,
                       user_token_revocations>>
        /\ UNCHANGED rbacVars
        /\ UNCHANGED procVars

\* UserTokenRevocation.revoke_all_tokens: upsert of the user's row with utcnow().
revoke_all_tokens(user_id) == [user_token_revocations EXCEPT ![user_id] = now]

\* POST /api/v1/auth/logout-all: middleware, jwt_required, AuthService.logout_all.
LogoutAll(header) ==
    LET r == before_request(header)
    IN  /\ IF r.err # None
           THEN /\ resp' = Response("logout_all", header, r.err, FALSE, FALSE)
                /\ UNCHANGED user_token_revocations
           ELSE /\ user_token_revocations' = revoke_all_tokens(r.g.user)
                /\ resp' = Response("logout_all", header, "ok", TRUE, FALSE)
        /\ UNCHANGED <<now, users, tenants, tenant_users, tokens,
                       blacklisted_tokens>>
        /\ UNCHANGED rbacVars
        /\ UNCHANGED procVars

\* AuthService.switch_tenant: the error code, or "ok".
switch_tenant(user_id, target_tenant_id) ==
    IF user_id \notin DOMAIN users \/ ~users[user_id].is_active THEN "tenant_access_denied"
    ELSE IF target_tenant_id \notin DOMAIN tenants \/ tenants[target_tenant_id].deleted
         THEN "tenant_not_found"
    ELSE IF tenants[target_tenant_id].status = "suspended" THEN "tenant_access_denied"
    ELSE IF tenants[target_tenant_id].status = "canceled" THEN "tenant_access_denied"
    ELSE IF <<user_id, target_tenant_id>> \notin tenant_users THEN "tenant_access_denied"
    ELSE "ok"

\* POST /api/v1/auth/switch-tenant: middleware, jwt_required, AuthService.switch_tenant.
SwitchTenant(header, target_tenant_id) ==
    LET r == before_request(header)
        code == IF r.err # None THEN r.err ELSE switch_tenant(r.g.user, target_tenant_id)
    IN  /\ code = "ok" => CanIssue
        /\ tokens' = IF code = "ok"
                     THEN tokens \cup generate_token_pair(r.g.user, target_tenant_id)
                     ELSE tokens
        /\ resp' = Response("switch_tenant", header, code, r.err = None, tokens' # tokens)
        /\ UNCHANGED <<now, users, tenants, tenant_users, blacklisted_tokens,
                       user_token_revocations>>
        /\ UNCHANGED rbacVars
        /\ UNCHANGED procVars

\* cleanup_expired that also deletes the rows expiring within the next second.
cleanup_expired_early(rows, cutoff) ==
    {row \in rows : ~(row.expires_at < cutoff + TicksPerSecond)}

\* BlacklistedToken.cleanup_expired: the rows left by
\* DELETE FROM blacklisted_tokens WHERE expires_at < :cutoff, cutoff being utcnow().
cleanup_expired(rows, cutoff) ==
    {row \in rows : ~(row.expires_at < cutoff)}

\* The periodic cleanup_expired_tokens task, delete and commit in one step.
CleanupExpired ==
    /\ blacklisted_tokens' = cleanup_expired(blacklisted_tokens, now)
    /\ blacklisted_tokens' # blacklisted_tokens
    /\ UNCHANGED <<now, users, tenants, tenant_users, tokens,
                   user_token_revocations>>
    /\ resp' = NoResponse
    /\ UNCHANGED rbacVars
    /\ UNCHANGED procVars

\* ---- changes made outside the request path of this core (admin CRUD, operators)

\* User.is_active is flipped (UserService.update_user / deactivate_user).
SetUserActive(user_id, is_active) ==
    /\ users[user_id].is_active # is_active
    /\ users' = [users EXCEPT ![user_id].is_active = is_active]
    /\ Drift(users', tenants, tenant_users) <= MaxDrift
    /\ UNCHANGED <<now, tenants, tenant_users, tokens, blacklisted_tokens,
                   user_token_revocations>>
    /\ resp' = NoResponse
    /\ UNCHANGED rbacVars
    /\ UNCHANGED procVars

\* Tenant.status of a live tenant is set by an operator.
SetTenantStatus(tenant_id, status) ==
    /\ ~tenants[tenant_id].deleted
    /\ tenants[tenant_id].status # status
    /\ tenants' = [tenants EXCEPT ![tenant_id].status = status]
    /\ Drift(users, tenants', tenant_users) <= MaxDrift
    /\ UNCHANGED <<now, users, tenant_users, tokens, blacklisted_tokens,
                   user_token_revocations>>
    /\ resp' = NoResponse
    /\ UNCHANGED rbacVars
    /\ UNCHANGED procVars

\* Tenant.soft_delete: deleted_at is set and the status becomes canceled.
SoftDeleteTenant(tenant_id) ==
    /\ ~tenants[tenant_id].deleted
    /\ tenants' = [tenants EXCEPT ![tenant_id] = [status |-> "canceled", deleted |-> TRUE]]
    /\ Drift(users, tenants', tenant_users) <= MaxDrift
    /\ UNCHANGED <<now, users, tenant_users, tokens, blacklisted_tokens,
                   user_token_revocations>>
    /\ resp' = NoResponse
    /\ UNCHANGED rbacVars
    /\ UNCHANGED procVars

\* A TenantUser row is removed.
RemoveMembership(user_id, tenant_id) ==
    /\ <<user_id, tenant_id>> \in tenant_users
    /\ tenant_users' = tenant_users \ {<<user_id, tenant_id>>}
    /\ Drift(users, tenants, tenant_users') <= MaxDrift
    /\ UNCHANGED <<now, users, tenants, tokens, blacklisted_tokens,
                   user_token_revocations>>
    /\ resp' = NoResponse
    /\ UNCHANGED rbacVars
    /\ UNCHANGED procVars

\* A TenantUser row is added (UserService.create_user, AuthService.accept_invite).
AddMembership(user_id, tenant_id) ==
    /\ <<user_id, tenant_id>> \notin tenant_users
    /\ tenant_users' = tenant_users \cup {<<user_id, tenant_id>>}
    /\ Drift(users, tenants, tenant_users') <= MaxDrift
    /\ UNCHANGED <<now, users, tenants, tokens, blacklisted_tokens,
                   user_token_revocations>>
    /\ resp' = NoResponse
    /\ UNCHANGED rbacVars
    /\ UNCHANGED procVars

\* Requests and out-of-band changes of users, tenants and memberships.
Next ==
    \/ Tick
    \/ \E user_id \in UserIds, pw_ok \in BOOLEAN, tenant_id \in TenantIds :
           Login(user_id, pw_ok, tenant_id)
    \/ \E token \in {Garbage} \cup tokens : Refresh(token)
    \/ \E header \in Headers : GetMe(header)
    \/ \E user_id \in UserIds, is_active \in BOOLEAN : SetUserActive(user_id, is_active)
    \/ \E tenant_id \in TenantIds, status \in TenantStatus : SetTenantStatus(tenant_id, status)
    \/ \E tenant_id \in TenantIds : SoftDeleteTenant(tenant_id)
    \/ \E user_id \in UserIds, tenant_id \in TenantIds : RemoveMembership(user_id, tenant_id)
    \/ \E user_id \in UserIds, tenant_id \in TenantIds : AddMembership(user_id, tenant_id)

Spec == Init /\ [][Next]_vars

\* Requests and the revocation store, with users, tenants and memberships left alone.
NextSession ==
    \/ Tick
    \/ \E user_id \in UserIds, pw_ok \in BOOLEAN, tenant_id \in TenantIds :
           Login(user_id, pw_ok, tenant_id)
    \/ \E token \in {Garbage} \cup tokens : Refresh(token)
    \/ \E header \in Headers : GetMe(header)
    \/ \E header \in Headers : Logout(header)
    \/ \E header \in Headers : LogoutAll(header)
    \/ \E header \in Headers, tenant_id \in TenantIds : SwitchTenant(header, tenant_id)
    \/ CleanupExpired

SpecSession == Init /\ [][NextSession]_vars

\* ---------------------------------------------------------------- RBAC

\* roles table: every role belongs to one tenant; r2 is a system role (seeded with
\* the tenant); deleted_at is set for the roles in deleted_roles.
roles == [r \in RoleIds |->
            [tenant_id |-> IF r = "r3" THEN "t2" ELSE "t1",
             is_system_role |-> (r = "r2"),
             deleted |-> (r \in deleted_roles)]]

\* The primary key of a new row (BaseModel.id): the first id not in use.
NewRowId(rows) ==
    CHOOSE i \in 1..(Cardinality(rows) + 1) :
        /\ \A r \in rows : r.id # i
        /\ \A j \in 1..(Cardinality(rows) + 1) : (\A r \in rows : r.id # j) => i <= j

\* A UserRole row.
UserRole(rows, user_id, role_id, tenant_id, store_id) ==
    [id |-> NewRowId(rows), user_id |-> user_id, role_id |-> role_id,
     tenant_id |-> tenant_id, store_id |-> store_id]

\* Aggregator that takes every role of the user in the tenant, whatever its store.
get_user_permissions_any_store(user_id, tenant_id, store_id) ==
    LET role_ids == {ur.role_id : ur \in {x \in user_roles :
                            /\ x.user_id = user_id
                            /\ x.tenant_id = tenant_id}}
    IN  {rp[2] : rp \in {x \in role_permissions : x[1] \in role_ids}}

\* Aggregator that, given a store, takes only the roles scoped to that store.
get_user_permissions_store_only(user_id, tenant_id, store_id) ==
    LET role_ids == {ur.role_id : ur \in {x \in user_roles :
                            /\ x.user_id = user_id
                            /\ x.tenant_id = tenant_id
                            /\ x.store_id = store_id}}
    IN  {rp[2] : rp \in {x \in role_permissions : x[1] \in role_ids}}

\* Aggregator that does not filter the assignments by tenant.
get_user_permissions_any_tenant(user_id, tenant_id, store_id) ==
    LET role_ids == {ur.role_id : ur \in {x \in user_roles :
                            /\ x.user_id = user_id
                            /\ (x.store_id = None \/ x.store_id = store_id)}}
    IN  {rp[2] : rp \in {x \in role_permissions : x[1] \in role_ids}}

\* Permission aggregator: tenant-wide roles, plus the roles scoped to store_id when
\* one is given, then the permission names of those roles.
get_user_permissions(user_id, tenant_id, store_id) ==
    LET role_query == {ur.role_id : ur \in {x \in user_roles :
                            /\ x.user_id = user_id
                            /\ x.tenant_id = tenant_id
                            /\ x.store_id = None}}
        store_role_query == {ur.role_id : ur \in {x \in user_roles :
                            /\ x.user_id = user_id
                            /\ x.tenant_id = tenant_id
                            /\ x.store_id = store_id}}
        role_ids == IF store_id # None THEN role_query \cup store_role_query
                    ELSE role_query
    IN  IF role_ids = {} THEN {}
        ELSE {rp[2] : rp \in {x \in role_permissions : x[1] \in role_ids}}

\* A call of the aggregator, as made by require_permission and has_permission.
GetUserPermissions(user_id, tenant_id, store_id) ==
    /\ perm_result' = [user_id |-> user_id, tenant_id |-> tenant_id, store_id |-> store_id,
                       permissions |-> get_user_permissions(user_id, tenant_id, store_id)]
    /\ UNCHANGED <<user_roles, role_permissions>>
    /\ UNCHANGED catalogVars
    /\ UNCHANGED authVars
    /\ UNCHANGED procVars

\* RBACService.assign_role_to_user in the tenant context g_tenant; the request
\* fails (and changes nothing) unless every check passes.
AssignRoleToUser(g_tenant, user_id, role_id, store_id) ==
    /\ user_id \in DOMAIN users
    /\ <<user_id, g_tenant>> \in tenant_users
    /\ role_id \in DOMAIN roles
    /\ roles[role_id].tenant_id = g_tenant /\ ~roles[role_id].deleted
    /\ store_id # None =>
          /\ store_id \in DOMAIN stores
          /\ stores[store_id].tenant_id = g_tenant /\ ~stores[store_id].deleted
    /\ ~\E ur \in user_roles :
          /\ ur.user_id = user_id /\ ur.role_id = role_id
          /\ ur.tenant_id = g_tenant /\ ur.store_id = store_id
    /\ Cardinality(user_roles) < MaxAssignments
    /\ user_roles' = user_roles \cup
          {UserRole(user_roles, user_id, role_id, g_tenant, store_id)}
    /\ perm_result' = NoResult
    /\ UNCHANGED role_permissions
    /\ UNCHANGED catalogVars
    /\ UNCHANGED authVars
    /\ UNCHANGED procVars

\* RBACService.revoke_role_from_user in the tenant context g_tenant.
RevokeRoleFromUser(g_tenant, user_id, role_id, store_id) ==
    /\ user_id \in DOMAIN users
    /\ <<user_id, g_tenant>> \in tenant_users
    /\ \E ur \in user_roles :
          /\ ur.user_id = user_id /\ ur.role_id = role_id
          /\ ur.tenant_id = g_tenant /\ ur.store_id = store_id
          /\ user_roles' = user_roles \ {ur}
    /\ perm_result' = NoResult
    /\ UNCHANGED role_permissions
    /\ UNCHANGED catalogVars
    /\ UNCHANGED authVars
    /\ UNCHANGED procVars

\* RBACService.update_role with permission_ids: the role's permissions are replaced.
UpdateRole(g_tenant, role_id, permission_ids) ==
    /\ role_id \in DOMAIN roles
    /\ roles[role_id].tenant_id = g_tenant /\ ~roles[role_id].deleted
    /\ role_permissions' = {rp \in role_permissions : rp[1] # role_id}
                           \cup {<<role_id, perm>> : perm \in permission_ids}
    /\ role_permissions' # role_permissions
    /\ perm_result' = NoResult
    /\ UNCHANGED user_roles
    /\ UNCHANGED catalogVars
    /\ UNCHANGED authVars
    /\ UNCHANGED procVars

NextRbac ==
    \/ \E user_id \in UserIds, tenant_id \in TenantIds, store_id \in StoreIds \cup {None} :
           GetUserPermissions(user_id, tenant_id, store_id)
    \/ \E g_tenant \in TenantIds, user_id \in UserIds, role_id \in RoleIds,
          store_id \in StoreIds \cup {None} :
           AssignRoleToUser(g_tenant, user_id, role_id, store_id)
    \/ \E g_tenant \in TenantIds, user_id \in UserIds, role_id \in RoleIds,
          store_id \in StoreIds \cup {None} :
           RevokeRoleFromUser(g_tenant, user_id, role_id, store_id)
    \/ \E g_tenant \in TenantIds, role_id \in RoleIds, permission_ids \in SUBSET PermissionNames :
           UpdateRole(g_tenant, role_id, permission_ids)

\* The permission aggregator over changing role assignments and role permissions.
SpecRbac == Init /\ [][NextRbac]_vars

\* ------------------------------------------------ revocation under concurrency

\* revoke_all_tokens, first statement: the SELECT of the user's row.  The caller is
\* logout_all (the authenticated user) or reset_password (the reset token's user).
RevokeSelect(c, user_id) ==
    /\ revocation_calls[c].pc = "idle"
    /\ revocation_calls' = [revocation_calls EXCEPT ![c] =
          [pc |-> "selected", user_id |-> user_id,
           record |-> get_revocation_time(user_id) # NoTime, revoked_at |-> NoTime]]
    /\ UNCHANGED authVars
    /\ UNCHANGED rbacVars
    /\ UNCHANGED <<assignment_calls, cleanup_calls, signup_calls>>

\* revoke_all_tokens, the branch: an existing record gets revoked_at = utcnow() in
\* the session; a new record is added to the session without a timestamp yet.
RevokeAssign(c) ==
    /\ revocation_calls[c].pc = "selected"
    /\ revocation_calls' = [revocation_calls EXCEPT ![c] =
          [pc |-> "pending", user_id |-> revocation_calls[c].user_id,
           record |-> revocation_calls[c].record,
           revoked_at |-> IF revocation_calls[c].record THEN now ELSE NoTime]]
    /\ UNCHANGED authVars
    /\ UNCHANGED rbacVars
    /\ UNCHANGED <<assignment_calls, cleanup_calls, signup_calls>>

\* db.session.commit() of the caller: the UPDATE writes the timestamp taken earlier;
\* the INSERT takes the column default utcnow() and fails on the unique user_id when
\* another caller's row is already there.
RevokeCommit(c) ==
    LET call == revocation_calls[c]
    IN  /\ call.pc = "pending"
        /\ user_token_revocations' =
              IF call.record
              THEN [user_token_revocations EXCEPT ![call.user_id] = call.revoked_at]
              ELSE IF get_revocation_time(call.user_id) # NoTime
                   THEN user_token_revocations
                   ELSE [user_token_revocations EXCEPT ![call.user_id] = now]
        /\ revocation_calls' = [revocation_calls EXCEPT ![c] = IdleRevocation]
        /\ UNCHANGED <<now, users, tenants, tenant_users, tokens, blacklisted_tokens, resp>>
        /\ UNCHANGED rbacVars
        /\ UNCHANGED <<assignment_calls, cleanup_calls, signup_calls>>

NextRevocation ==
    \/ Tick
    \/ \E c \in CallerIds, user_id \in UserIds : RevokeSelect(c, user_id)
    \/ \E c \in CallerIds : RevokeAssign(c)
    \/ \E c \in CallerIds : RevokeCommit(c)

\* logout-all and password-reset calls served concurrently.
SpecRevocation == Init /\ [][NextRevocation]_vars

\* ------------------------------------------------ blacklist cleanup under concurrency

\* cleanup_expired builds its DELETE with cutoff = datetime.utcnow().
CleanupBegin(c) ==
    /\ cleanup_calls[c].pc = "idle"
    /\ cleanup_calls' = [cleanup_calls EXCEPT ![c] =
          [pc |-> "delete", cutoff |-> now, deleted |-> 0]]
    /\ resp' = NoResponse
    /\ UNCHANGED <<now, users, tenants, tenant_users, tokens, blacklisted_tokens,
                   user_token_revocations>>
    /\ UNCHANGED rbacVars
    /\ UNCHANGED <<revocation_calls, assignment_calls, signup_calls>>

\* The DELETE runs against the rows committed by then and the task commits; the
\* statement's row count is the task's result.
CleanupDelete(c) ==
    LET call == cleanup_calls[c]
        kept == cleanup_expired(blacklisted_tokens, call.cutoff)
    IN  /\ call.pc = "delete"
        /\ blacklisted_tokens' = kept
        /\ cleanup_calls' = [cleanup_calls EXCEPT ![c] =
              [pc |-> "idle", cutoff |-> NoTime,
               deleted |-> Cardinality(blacklisted_tokens \ kept)]]
        /\ resp' = NoResponse
        /\ UNCHANGED <<now, users, tenants, tenant_users, tokens,
                       user_token_revocations>>
        /\ UNCHANGED rbacVars
        /\ UNCHANGED <<revocation_calls, assignment_calls, signup_calls>>

NextCleanup ==
    \/ Tick
    \/ \E user_id \in UserIds : Login(user_id, TRUE, "t1")
    \/ \E header \in Headers : Logout(header)
    \/ \E c \in CallerIds : CleanupBegin(c)
    \/ \E c \in CallerIds : CleanupDelete(c)

\* Cleanup runs served concurrently with each other and with logouts.
SpecCleanup == Init /\ [][NextCleanup]_vars

\* ------------------------------------------------ bootstrap and registration

\* A freshly migrated database: no users, no tenants, no memberships.
InitFresh ==
    /\ now = 0
    /\ users = [u \in {} |-> [is_active |-> TRUE]]
    /\ tenants = [t \in {} |-> [status |-> "trial", deleted |-> FALSE]]
    /\ tenant_users = {}
    /\ tokens = {}
    /\ blacklisted_tokens = {}
    /\ user_token_revocations = [u \in UserIds |-> NoTime]
    /\ resp = NoResponse
    /\ user_roles = {}
    /\ role_permissions = {}
    /\ perm_result = NoResult
    /\ deleted_roles = {}
    /\ stores = SeedStores
    /\ store_users = SeedStoreUsers
    /\ user_invitations = {}
    /\ revocation_calls = [c \in CallerIds |-> IdleRevocation]
    /\ assignment_calls = [c \in CallerIds |-> IdleAssignment]
    /\ cleanup_calls = [c \in CallerIds |-> IdleCleanup]
    /\ signup_calls = [c \in CallerIds |-> IdleSignup]

\* AuthService.bootstrap before it calls register: BadRequest when the users table,
\* as this request sees it, is not empty.
bootstrap == IF Cardinality(DOMAIN users) > 0 THEN "bad_request" ELSE None

\* POST /api/v1/auth/bootstrap (exempt path), up to the user count.  The user is named
\* by its email and the tenant by its slug.
BootstrapCount(c, user_id, tenant_id) ==
    /\ signup_calls[c].pc = "idle"
    /\ IF bootstrap # None
       THEN /\ resp' = Response("bootstrap", NoHeader, bootstrap, TRUE, FALSE)
            /\ UNCHANGED signup_calls
       ELSE /\ resp' = NoResponse
            /\ signup_calls' = [signup_calls EXCEPT ![c] =
                  [pc |-> "counted", user_id |-> user_id, tenant_id |-> tenant_id]]
    /\ UNCHANGED <<now, users, tenants, tenant_users, tokens, blacklisted_tokens,
                   user_token_revocations>>
    /\ UNCHANGED rbacVars
    /\ UNCHANGED <<revocation_calls, assignment_calls, cleanup_calls>>

\* The route a call in progress answers for.
SignupOp(c) == IF signup_calls[c].pc \in {"counted", "bootstrap_insert"}
               THEN "bootstrap" ELSE "register"

\* AuthService.register, the two lookups: the email, then the tenant slug.
\* Entered from POST /api/v1/auth/register or from bootstrap after its count.
RegisterSelect(c, user_id, tenant_id) ==
    LET call == signup_calls[c]
        code == IF user_id \in DOMAIN users THEN "duplicate_resource"
                ELSE IF tenant_id \in DOMAIN tenants THEN "duplicate_resource"
                ELSE None
    IN  /\ \/ call.pc = "idle"
           \/ call.pc = "counted" /\ call.user_id = user_id /\ call.tenant_id = tenant_id
        /\ IF code # None
           THEN /\ resp' = Response(SignupOp(c), NoHeader, code, TRUE, FALSE)
                /\ signup_calls' = [signup_calls EXCEPT ![c] = IdleSignup]
           ELSE /\ resp' = NoResponse
                /\ signup_calls' = [signup_calls EXCEPT ![c] =
                      [pc |-> IF call.pc = "counted" THEN "bootstrap_insert" ELSE "insert",
                       user_id |-> user_id, tenant_id |-> tenant_id]]
        /\ UNCHANGED <<now, users, tenants, tenant_users, tokens, blacklisted_tokens,
                       user_token_revocations>>
        /\ UNCHANGED rbacVars
        /\ UNCHANGED <<revocation_calls, assignment_calls, cleanup_calls>>

\* AuthService.register, the inserts and the commit: an active user, a trial tenant
\* and the membership row, then the token pair.  users.email and tenants.slug are
\* unique, so a row committed by another request since the lookups fails the inserts.
RegisterCommit(c) ==
    LET call == signup_calls[c]
        clash == call.user_id \in DOMAIN users \/ call.tenant_id \in DOMAIN tenants
    IN  /\ call.pc \in {"insert", "bootstrap_insert"}
        /\ ~clash => CanIssue
        /\ IF clash
           THEN /\ resp' = Response(SignupOp(c), NoHeader, "internal_error", TRUE, FALSE)
                /\ UNCHANGED <<users, tenants, tenant_users, tokens>>
           ELSE /\ users' = [u \in DOMAIN users \cup {call.user_id} |->
                                IF u = call.user_id THEN [is_active |-> TRUE] ELSE users[u]]
                /\ tenants' = [t \in DOMAIN tenants \cup {call.tenant_id} |->
                                  IF t = call.tenant_id
                                  THEN [status |-> "trial", deleted |-> FALSE]
                                  ELSE tenants[t]]
                /\ tenant_users' = tenant_users \cup {<<call.user_id, call.tenant_id>>}
                /\ tokens' = tokens \cup generate_token_pair(call.user_id, call.tenant_id)
                /\ resp' = Response(SignupOp(c), NoHeader, "created", TRUE, TRUE)
        /\ signup_calls' = [signup_calls EXCEPT ![c] = IdleSignup]
        /\ UNCHANGED <<now, blacklisted_tokens, user_token_revocations>>
        /\ UNCHANGED rbacVars
        /\ UNCHANGED <<revocation_calls, assignment_calls, cleanup_calls>>

NextBootstrap ==
    \/ Tick
    \/ \E c \in CallerIds, user_id \in UserIds, tenant_id \in TenantIds :
           BootstrapCount(c, user_id, tenant_id)
    \/ \E c \in CallerIds, user_id \in UserIds, tenant_id \in TenantIds :
           RegisterSelect(c, user_id, tenant_id)
    \/ \E c \in CallerIds : RegisterCommit(c)

\* Bootstrap and register requests served concurrently on a fresh database.
SpecBootstrap == InitFresh /\ [][NextBootstrap]_vars

\* ------------------------------------------------ role assignment

\* The role_ids lists a client can send (UpdateUserSchema does not deduplicate).
RoleIdLists == UNION {[1..n -> RoleIds] : n \in 0..MaxRoleIds}

\* The loop of update_user: one new tenant-wide row per element of role_ids.
RECURSIVE AddTenantWideRoles(_, _, _, _)
AddTenantWideRoles(rows, user_id, tenant_id, role_ids) ==
    IF role_ids = <<>> THEN rows
    ELSE AddTenantWideRoles(
             rows \cup {UserRole(rows, user_id, Head(role_ids), tenant_id, None)},
             user_id, tenant_id, Tail(role_ids))

\* UserService.update_user with role_ids (and no other field) in the tenant context
\* g_tenant: the user's tenant-wide rows are deleted and the listed roles added.
UpdateUser(g_tenant, user_id, role_ids) ==
    /\ user_id \in DOMAIN users
    /\ <<user_id, g_tenant>> \in tenant_users
    /\ \A i \in DOMAIN role_ids :
          role_ids[i] \in DOMAIN roles /\ roles[role_ids[i]].tenant_id = g_tenant
    /\ user_roles' = AddTenantWideRoles(
                         {ur \in user_roles : ~(/\ ur.user_id = user_id
                                                /\ ur.tenant_id = g_tenant
                                                /\ ur.store_id = None)},
                         user_id, g_tenant, role_ids)
    /\ Cardinality(user_roles') <= MaxAssignments
    /\ perm_result' = NoResult
    /\ UNCHANGED role_permissions
    /\ UNCHANGED catalogVars
    /\ UNCHANGED authVars
    /\ UNCHANGED procVars

\* assign_role_to_user up to its duplicate check: every lookup passed and no matching
\* assignment was found.
AssignSelect(c, g_tenant, user_id, role_id, store_id) ==
    /\ assignment_calls[c].pc = "idle"
    /\ user_id \in DOMAIN users
    /\ <<user_id, g_tenant>> \in tenant_users
    /\ role_id \in DOMAIN roles
    /\ roles[role_id].tenant_id = g_tenant /\ ~roles[role_id].deleted
    /\ store_id # None =>
          /\ store_id \in DOMAIN stores
          /\ stores[store_id].tenant_id = g_tenant /\ ~stores[store_id].deleted
    /\ ~\E ur \in user_roles :
          /\ ur.user_id = user_id /\ ur.role_id = role_id
          /\ ur.tenant_id = g_tenant /\ ur.store_id = store_id
    /\ assignment_calls' = [assignment_calls EXCEPT ![c] =
          [pc |-> "pending", tenant_id |-> g_tenant, user_id |-> user_id,
           role_id |-> role_id, store_id |-> store_id]]
    /\ UNCHANGED authVars
    /\ UNCHANGED rbacVars
    /\ UNCHANGED <<revocation_calls, cleanup_calls, signup_calls>>

\* The INSERT and commit of assign_role_to_user.  uq_user_role_store rejects a second
\* row with the same user, role and store; rows whose store_id is NULL never collide,
\* since a unique constraint holds NULLs to be distinct.
AssignCommit(c) ==
    LET call == assignment_calls[c]
        collides == /\ call.store_id # None
                    /\ \E ur \in user_roles : /\ ur.user_id = call.user_id
                                              /\ ur.role_id = call.role_id
                                              /\ ur.store_id = call.store_id
    IN  /\ call.pc = "pending"
        /\ user_roles' = IF collides THEN user_roles
                         ELSE user_roles \cup {UserRole(user_roles, call.user_id, call.role_id,
                                                        call.tenant_id, call.store_id)}
        /\ Cardinality(user_roles') <= MaxAssignments
        /\ assignment_calls' = [assignment_calls EXCEPT ![c] = IdleAssignment]
        /\ perm_result' = NoResult
        /\ UNCHANGED role_permissions
        /\ UNCHANGED catalogVars
        /\ UNCHANGED authVars
        /\ UNCHANGED <<revocation_calls, cleanup_calls, signup_calls>>

NextAssignment ==
    \/ \E g_tenant \in TenantIds, user_id \in UserIds, role_id \in RoleIds,
          store_id \in StoreIds \cup {None} :
           AssignRoleToUser(g_tenant, user_id, role_id, store_id)
    \/ \E g_tenant \in TenantIds, user_id \in UserIds, role_id \in RoleIds,
          store_id \in StoreIds \cup {None} :
           RevokeRoleFromUser(g_tenant, user_id, role_id, store_id)
    \/ \E g_tenant \in TenantIds, user_id \in UserIds, role_ids \in RoleIdLists :
           UpdateUser(g_tenant, user_id, role_ids)
    \/ \E c \in CallerIds, g_tenant \in TenantIds, user_id \in UserIds, role_id \in RoleIds,
          store_id \in StoreIds \cup {None} :
           AssignSelect(c, g_tenant, user_id, role_id, store_id)
    \/ \E c \in CallerIds : AssignCommit(c)

\* Role-assignment operations, sequential and concurrent.
SpecAssignment == Init /\ [][NextAssignment]_vars

\* ------------------------------------------------ role deletion

\* RBACService.delete_role in the tenant context g_tenant: the role's assignments are
\* deleted and its deleted_at is set; its role_permissions rows stay.
DeleteRole(g_tenant, role_id) ==
    /\ role_id \in DOMAIN roles
    /\ roles[role_id].tenant_id = g_tenant /\ ~roles[role_id].deleted
    /\ ~roles[role_id].is_system_role
    /\ user_roles' = {ur \in user_roles : ur.role_id # role_id}
    /\ deleted_roles' = deleted_roles \cup {role_id}
    /\ perm_result' = NoResult
    /\ UNCHANGED <<role_permissions, stores, store_users, user_invitations>>
    /\ UNCHANGED authVars
    /\ UNCHANGED procVars

NextRoles ==
    \/ \E role_id \in RoleIds : DeleteRole("t1", role_id)
    \/ \E role_id \in RoleIds, permission_ids \in SUBSET PermissionNames :
           UpdateRole("t1", role_id, permission_ids)
    \/ \E user_id \in UserIds, role_id \in RoleIds, store_id \in {None, "sA"} :
           AssignRoleToUser("t1", user_id, role_id, store_id)
    \/ \E user_id \in UserIds, role_ids \in RoleIdLists : UpdateUser("t1", user_id, role_ids)
    \/ \E user_id \in UserIds, store_id \in {None, "sA"} :
           GetUserPermissions(user_id, "t1", store_id)

\* Roles of tenant t1 being assigned, replaced and deleted.
SpecRoles == Init /\ [][NextRoles]_vars

\* ------------------------------------------------ invitations

\* UserInvitation.create_invitation: a row for an email (here the id of the user
\* holding or to hold that email) and a tenant, with an optional role.  No route calls
\* it; rows come from administration tools.  The 7-day expiry is beyond the clock cap.
CreateInvitation(user_id, tenant_id, role_id) ==
    /\ Cardinality(user_invitations) < MaxInvitations
    /\ tenant_id \in DOMAIN tenants /\ ~tenants[tenant_id].deleted
    /\ <<user_id, tenant_id>> \notin tenant_users
    /\ user_invitations' = user_invitations \cup
          {[token |-> Cardinality(user_invitations) + 1, user_id |-> user_id,
            tenant_id |-> tenant_id, role_id |-> role_id, accepted |-> FALSE]}
    /\ resp' = NoResponse
    /\ UNCHANGED <<now, users, tenants, tenant_users, tokens, blacklisted_tokens,
                   user_token_revocations>>
    /\ UNCHANGED <<user_roles, role_permissions, perm_result, deleted_roles, stores,
                   store_users>>
    /\ UNCHANGED procVars

\* UserInvitation.get_valid_invitation: the row of the token if it is not accepted.
get_valid_invitation(token) ==
    {i \in user_invitations : i.token = token /\ ~i.accepted}

\* AuthService.accept_invite: the error code, or "created".
accept_invite(token) ==
    LET found == get_valid_invitation(token)
        invitation == CHOOSE i \in found : TRUE
    IN  IF found = {} THEN "invalid_token"
        ELSE IF /\ invitation.user_id \in DOMAIN users
                /\ <<invitation.user_id, invitation.tenant_id>> \in tenant_users
             THEN "duplicate_resource"
        ELSE IF invitation.tenant_id \notin DOMAIN tenants THEN "invalid_token"
        ELSE "created"

\* POST /api/v1/auth/accept-invite: the path is not exempt, so the middleware runs
\* first on the caller's header; then AuthService.accept_invite with the invitation
\* token of the request body.
AcceptInvite(header, token) ==
    LET r == before_request(header)
        code == IF r.err # None THEN r.err ELSE accept_invite(token)
        invitation == CHOOSE i \in get_valid_invitation(token) : TRUE
        with_role == /\ invitation.role_id # None
                     /\ invitation.role_id \in DOMAIN roles
                     /\ roles[invitation.role_id].tenant_id = invitation.tenant_id
    IN  /\ code = "created" => CanIssue
        /\ IF code # "created"
           THEN UNCHANGED <<users, tenant_users, tokens, user_roles, user_invitations>>
           ELSE /\ users' = [u \in DOMAIN users \cup {invitation.user_id} |->
                                IF u \in DOMAIN users THEN users[u]
                                ELSE [is_active |-> TRUE]]
                /\ tenant_users' = tenant_users \cup
                                      {<<invitation.user_id, invitation.tenant_id>>}
                /\ user_roles' = IF with_role
                                 THEN user_roles \cup
                                      {UserRole(user_roles, invitation.user_id,
                                                invitation.role_id, invitation.tenant_id, None)}
                                 ELSE user_roles
                /\ user_invitations' = (user_invitations \ {invitation})
                                          \cup {[invitation EXCEPT !.accepted = TRUE]}
                /\ tokens' = tokens \cup
                                generate_token_pair(invitation.user_id, invitation.tenant_id)
        /\ resp' = Response("accept_invite", header, code, r.err = None, tokens' # tokens)
        /\ perm_result' = IF code = "created" THEN NoResult ELSE perm_result
        /\ UNCHANGED <<now, tenants, blacklisted_tokens, user_token_revocations>>
        /\ UNCHANGED <<role_permissions, deleted_roles, stores, store_users>>
        /\ UNCHANGED procVars

NextIssue ==
    \/ \E user_id \in UserIds, pw_ok \in BOOLEAN, tenant_id \in TenantIds :
           Login(user_id, pw_ok, tenant_id)
    \/ \E token \in {Garbage} \cup tokens : Refresh(token)
    \/ \E header \in Headers, tenant_id \in TenantIds : SwitchTenant(header, tenant_id)
    \/ \E header \in Headers, token \in 1..MaxInvitations : AcceptInvite(header, token)
    \/ \E user_id \in UserIds, tenant_id \in TenantIds, role_id \in {None, "r3"} :
           CreateInvitation(user_id, tenant_id, role_id)
    \/ \E user_id \in UserIds, is_active \in BOOLEAN : SetUserActive(user_id, is_active)
    \/ \E tenant_id \in TenantIds : SoftDeleteTenant(tenant_id)
    \/ \E user_id \in UserIds, tenant_id \in TenantIds : RemoveMembership(user_id, tenant_id)

\* Every operation that issues a token pair to an existing account, with users, tenants
\* and memberships changing in between.
SpecIssue == Init /\ [][NextIssue]_vars

\* ------------------------------------------------ request pipeline

\* flask.g after TenantMiddleware has initialised it.
EmptyContext == [user |-> None, tenant |-> None, store |-> None]

\* UUID(store_id): the header values that parse as a UUID.
IsUuid(store_id) == store_id \in DOMAIN stores \cup {"s0"}

\* load_store without the is_active check.
load_store_inactive_allowed(store_id, tenant_id, user_id) ==
    IF ~IsUuid(store_id) THEN [err |-> "store_not_found", store |-> None]
    ELSE IF \/ store_id \notin DOMAIN stores
            \/ stores[store_id].tenant_id # tenant_id
            \/ stores[store_id].deleted
         THEN [err |-> "store_not_found", store |-> None]
    ELSE IF <<user_id, store_id, tenant_id>> \notin store_users
         THEN [err |-> "store_access_denied", store |-> None]
    ELSE [err |-> None, store |-> store_id]

\* load_store without the StoreUser lookup.
load_store_no_assignment_check(store_id, tenant_id, user_id) ==
    IF ~IsUuid(store_id) THEN [err |-> "store_not_found", store |-> None]
    ELSE IF \/ store_id \notin DOMAIN stores
            \/ stores[store_id].tenant_id # tenant_id
            \/ stores[store_id].deleted
         THEN [err |-> "store_not_found", store |-> None]
    ELSE IF ~stores[store_id].is_active THEN [err |-> "store_not_found", store |-> None]
    ELSE [err |-> None, store |-> store_id]

\* load_store: the Store row of the tenant, then the StoreUser row of the user.
load_store(store_id, tenant_id, user_id) ==
    IF ~IsUuid(store_id) THEN [err |-> "store_not_found", store |-> None]
    ELSE IF \/ store_id \notin DOMAIN stores
            \/ stores[store_id].tenant_id # tenant_id
            \/ stores[store_id].deleted
         THEN [err |-> "store_not_found", store |-> None]
    ELSE IF ~stores[store_id].is_active THEN [err |-> "store_not_found", store |-> None]
    ELSE IF <<user_id, store_id, tenant_id>> \notin store_users
         THEN [err |-> "store_access_denied", store |-> None]
    ELSE [err |-> None, store |-> store_id]

\* TenantMiddleware.before_request on any path: g is reset, exempt paths return at
\* once, other paths go through identity resolution.
TenantMiddleware(ctx, header, exempt) ==
    LET r == before_request(header)
    IN  IF exempt THEN [err |-> None, g |-> EmptyContext]
        ELSE IF r.err # None THEN [err |-> r.err, g |-> EmptyContext]
        ELSE [err |-> None, g |-> [user |-> r.g.user, tenant |-> r.g.tenant, store |-> None]]

\* StoreMiddleware.before_request.
StoreMiddleware(ctx, store_header) ==
    LET l == load_store(store_header, ctx.tenant, ctx.user)
    IN  IF ctx.tenant = None THEN [err |-> None, g |-> ctx]
        ELSE IF store_header = None \/ store_header = "" THEN [err |-> None, g |-> ctx]
        ELSE IF l.err # None THEN [err |-> l.err, g |-> ctx]
        ELSE [err |-> None, g |-> [ctx EXCEPT !.store = l.store]]

\* The before_request functions in the reverse of the registered order.
init_middleware_store_first == <<"StoreMiddleware", "TenantMiddleware">>

\* init_middleware: the before_request functions in the order they are registered.
init_middleware == <<"TenantMiddleware", "StoreMiddleware">>

\* One registered before_request function.
run_before_request(name, ctx, header, exempt, store_header) ==
    IF name = "TenantMiddleware" THEN TenantMiddleware(ctx, header, exempt)
    ELSE StoreMiddleware(ctx, store_header)

\* Flask runs the before_request functions in registration order and stops at the
\* first one that raises.
preprocess_request(header, exempt, store_header) ==
    LET r1 == run_before_request(init_middleware[1], EmptyContext, header, exempt, store_header)
        r2 == run_before_request(init_middleware[2], r1.g, header, exempt, store_header)
    IN  IF r1.err # None THEN [err |-> r1.err, g |-> r1.g, steps |-> <<init_middleware[1]>>]
        ELSE [err |-> r2.err, g |-> r2.g, steps |-> <<init_middleware[1], init_middleware[2]>>]

\* require_permission with require-any and require-all exchanged.
require_permission_modes_swapped(ctx, permissions, require_all) ==
    LET user_permissions == get_user_permissions(ctx.user, ctx.tenant, ctx.store)
        missing == {perm \in permissions : perm \notin user_permissions}
    IN  IF ctx.user = None THEN "unauthorized"
        ELSE IF ctx.tenant = None THEN "forbidden"
        ELSE IF ~require_all
             THEN (IF missing # {} THEN "insufficient_permissions" ELSE None)
        ELSE IF ~\E perm \in permissions : perm \in user_permissions
             THEN "insufficient_permissions"
        ELSE None

\* require_permission: the error it raises, or None when the handler may run.
require_permission(ctx, permissions, require_all) ==
    LET user_permissions == get_user_permissions(ctx.user, ctx.tenant, ctx.store)
        missing == {perm \in permissions : perm \notin user_permissions}
    IN  IF ctx.user = None THEN "unauthorized"
        ELSE IF ctx.tenant = None THEN "forbidden"
        ELSE IF require_all
             THEN (IF missing # {} THEN "insufficient_permissions" ELSE None)
        ELSE IF ~\E perm \in permissions : perm \in user_permissions
             THEN "insufficient_permissions"
        ELSE None

\* A request to a route decorated with require_permission: the before_request
\* functions, then the guard, then the handler.
handle_request(header, exempt, store_header, permissions, require_all) ==
    LET p == preprocess_request(header, exempt, store_header)
        guard == require_permission(p.g, permissions, require_all)
    IN  IF p.err # None THEN [code |-> p.err, g |-> p.g, steps |-> p.steps]
        ELSE IF guard # None
             THEN [code |-> guard, g |-> p.g, steps |-> p.steps \o <<"require_permission">>]
        ELSE [code |-> "ok", g |-> p.g,
              steps |-> p.steps \o <<"require_permission", "handler">>]

Request(header, exempt, store_header, permissions, require_all) ==
    LET r == handle_request(header, exempt, store_header, permissions, require_all)
    IN  /\ resp' = Response("request", header, r.code,
                            \E i \in DOMAIN r.steps : r.steps[i] = "handler", FALSE)
        /\ UNCHANGED <<now, users, tenants, tenant_users, tokens, blacklisted_tokens,
                       user_token_revocations>>
        /\ UNCHANGED rbacVars
        /\ UNCHANGED procVars

NextPipeline ==
    \/ \E user_id \in UserIds, tenant_id \in TenantIds : Login(user_id, TRUE, tenant_id)
    \/ \E header \in Headers, exempt \in BOOLEAN, store_header \in StoreHeaders,
          permissions \in {{"products.view"}, PermissionNames}, require_all \in BOOLEAN :
           Request(header, exempt, store_header, permissions, require_all)
    \/ \E store_id \in {None, "sA"} : AssignRoleToUser("t1", "u1", "r1", store_id)
    \/ \E permission_ids \in SUBSET PermissionNames : UpdateRole("t1", "r1", permission_ids)

\* Requests through both middleware and the permission guard.
SpecPipeline == Init /\ [][NextPipeline]_vars

\* ------------------------------------------------ stores

\* The Store row that the store services load: of the tenant and not soft-deleted.
LiveStore(g_tenant, store_id) ==
    /\ store_id \in DOMAIN stores
    /\ stores[store_id].tenant_id = g_tenant
    /\ ~stores[store_id].deleted

\* StoreService.update_store with is_active given.
UpdateStore(g_tenant, store_id, is_active) ==
    /\ LiveStore(g_tenant, store_id)
    /\ stores' = [stores EXCEPT ![store_id].is_active = is_active]
    /\ resp' = NoResponse
    /\ UNCHANGED <<now, users, tenants, tenant_users, tokens, blacklisted_tokens,
                   user_token_revocations>>
    /\ UNCHANGED <<user_roles, role_permissions, perm_result, deleted_roles, store_users,
                   user_invitations>>
    /\ UNCHANGED procVars

\* StoreService.delete_store: deleted_at is set and is_active cleared; the store_users
\* and user_roles rows of the store stay.
DeleteStore(g_tenant, store_id) ==
    /\ LiveStore(g_tenant, store_id)
    /\ stores' = [stores EXCEPT ![store_id].deleted = TRUE, ![store_id].is_active = FALSE]
    /\ resp' = NoResponse
    /\ UNCHANGED <<now, users, tenants, tenant_users, tokens, blacklisted_tokens,
                   user_token_revocations>>
    /\ UNCHANGED <<user_roles, role_permissions, perm_result, deleted_roles, store_users,
                   user_invitations>>
    /\ UNCHANGED procVars

\* StoreService.assign_users_to_store: every user must be a member of the tenant; a
\* user already assigned is left as is.
AssignUsersToStore(g_tenant, store_id, user_ids) ==
    /\ LiveStore(g_tenant, store_id)
    /\ \A user_id \in user_ids :
          user_id \in DOMAIN users /\ <<user_id, g_tenant>> \in tenant_users
    /\ store_users' = store_users \cup
          {<<user_id, store_id, g_tenant>> : user_id \in
              {u \in user_ids : ~\E su \in store_users : su[1] = u /\ su[2] = store_id}}
    /\ resp' = NoResponse
    /\ UNCHANGED <<now, users, tenants, tenant_users, tokens, blacklisted_tokens,
                   user_token_revocations>>
    /\ UNCHANGED <<user_roles, role_permissions, perm_result, deleted_roles, stores,
                   user_invitations>>
    /\ UNCHANGED procVars

\* StoreService.remove_users_from_store: the StoreUser rows are deleted; the user_roles
\* rows scoped to the store stay.
RemoveUsersFromStore(g_tenant, store_id, user_ids) ==
    /\ LiveStore(g_tenant, store_id)
    /\ store_users' = {su \in store_users :
                          ~(su[2] = store_id /\ su[3] = g_tenant /\ su[1] \in user_ids)}
    /\ resp' = NoResponse
    /\ UNCHANGED <<now, users, tenants, tenant_users, tokens, blacklisted_tokens,
                   user_token_revocations>>
    /\ UNCHANGED <<user_roles, role_permissions, perm_result, deleted_roles, stores,
                   user_invitations>>
    /\ UNCHANGED procVars

NextStores ==
    \/ \E user_id \in UserIds : Login(user_id, TRUE, "t1")
    \/ \E header \in Headers, store_header \in {None, "sA"}, perm \in PermissionNames :
           Request(header, FALSE, store_header, {perm}, TRUE)
    \/ \E user_id \in UserIds, store_id \in {None, "sA"} :
           AssignRoleToUser("t1", user_id, "r1", store_id)
    \/ \E permission_ids \in SUBSET PermissionNames : UpdateRole("t1", "r1", permission_ids)
    \/ \E is_active \in BOOLEAN : UpdateStore("t1", "sA", is_active)
    \/ DeleteStore("t1", "sA")
    \/ \E user_ids \in SUBSET UserIds : AssignUsersToStore("t1", "sA", user_ids)
    \/ \E user_ids \in SUBSET UserIds : RemoveUsersFromStore("t1", "sA", user_ids)

\* Requests to guarded routes while store sA and its user assignments change.
SpecStores == Init /\ [][NextStores]_vars

\* ------------------------------------------------ exempt paths

\* A request path, cut into pieces so that string concatenation is \o and
\* str.startswith is the prefix relation: "/health/db" is <<"/health", "/db">>,
\* "/healthz" is <<"/health", "z">>, "/static/app.js" is <<"/static", "/", "app.js">>.
StartsWith(path, prefix) ==
    /\ Len(prefix) <= Len(path)
    /\ SubSeq(path, 1, Len(prefix)) = prefix

EXEMPT_PATHS == {<<"/api/v1/auth", "/login">>, <<"/api/v1/auth", "/register">>,
                 <<"/api/v1/auth", "/refresh">>, <<"/api/v1/auth", "/bootstrap">>}

EXEMPT_PREFIXES == {<<"/static", "/">>, <<"/health">>}

\* is_exempt that knows the exact paths only.
is_exempt_exact_only(path) == path \in EXEMPT_PATHS

\* TenantMiddleware.is_exempt.
is_exempt(path) ==
    \/ path \in EXEMPT_PATHS
    \/ \E prefix \in EXEMPT_PREFIXES : StartsWith(path, prefix)

\* The routes of the application that carry no permission guard, by path: the health
\* blueprint at the root and the auth and users blueprints under /api/v1.
url_map == {[path |-> <<"/health">>, endpoint |-> "health"],
            [path |-> <<"/health", "/db">>, endpoint |-> "health_db"],
            [path |-> <<"/api/v1/auth", "/login">>, endpoint |-> "login"],
            [path |-> <<"/api/v1/auth", "/register">>, endpoint |-> "register"],
            [path |-> <<"/api/v1/auth", "/refresh">>, endpoint |-> "refresh"],
            [path |-> <<"/api/v1/auth", "/bootstrap">>, endpoint |-> "bootstrap"],
            [path |-> <<"/api/v1/auth", "/forgot-password">>, endpoint |-> "forgot_password"],
            [path |-> <<"/api/v1/users", "/me">>, endpoint |-> "me"]}

\* Paths a client can ask for: every route, and some paths that are no route.
Paths == {r.path : r \in url_map}
             \cup {<<"/health", "z">>, <<"/static", "/", "app.js">>, <<"/static">>,
                   <<"/api/v1/auth", "/login", "/">>}

\* The endpoint the URL map matches, None when there is none (404).
endpoint(path) ==
    IF \E r \in url_map : r.path = path
    THEN (CHOOSE r \in url_map : r.path = path).endpoint
    ELSE None

\* A request to a path without a permission guard: the before_request functions, URL
\* matching, then the view.  The view's own outcome is left out: code "ok" stands for
\* "the view ran".
full_dispatch_request(path, header, store_header) ==
    LET p == preprocess_request(header, is_exempt(path), store_header)
    IN  IF p.err # None THEN [code |-> p.err, g |-> p.g, handler |-> FALSE]
        ELSE IF endpoint(path) = None THEN [code |-> "not_found", g |-> p.g, handler |-> FALSE]
        ELSE [code |-> "ok", g |-> p.g, handler |-> TRUE]

PathRequest(path, header, store_header) ==
    LET r == full_dispatch_request(path, header, store_header)
    IN  /\ resp' = Response(endpoint(path), header, r.code, r.handler, FALSE)
        /\ UNCHANGED <<now, users, tenants, tenant_users, tokens, blacklisted_tokens,
                       user_token_revocations>>
        /\ UNCHANGED rbacVars
        /\ UNCHANGED procVars

NextPaths ==
    \/ Tick
    \/ \E user_id \in UserIds, tenant_id \in TenantIds : Login(user_id, TRUE, tenant_id)
    \/ \E path \in Paths, header \in Headers, store_header \in {None, "sA", "sC"} :
           PathRequest(path, header, store_header)

\* Requests by path, through both middleware.
SpecPaths == Init /\ [][NextPaths]_vars

\* ---------------------------------------------------------------- properties

\* Routes behind TenantMiddleware (every route that is not on the exempt list).
ProtectedOps == {"get_me", "logout", "logout_all", "switch_tenant"}

\* The request just handled presented a signed token.
Presented == resp.jti # 0

\* The token presented by the request just handled.
RespToken == CHOOSE t \in tokens : t.jti = resp.jti

\* The membership row of the pair a token names.
Member(t) == <<t.user_id, t.tenant_id>> \in tenant_users

\* A token is revoked by the user-wide mechanism: issued before the user's revoked_at.
RevokedBefore(t) ==
    /\ get_revocation_time(t.user_id) # NoTime
    /\ t.iat < get_revocation_time(t.user_id)

\* C10: a token whose exp is in the past fails decode with TokenExpired, and a
\* request to a protected route presenting it is rejected with TokenExpired, whatever
\* its type and whatever the state of its user, tenant and membership.
C10_ExpiredTokenRejected ==
    /\ \A t \in tokens : t.exp < now => decode_token(t).err = "token_expired"
    /\ (resp.op \in ProtectedOps /\ Presented /\ RespToken.exp < now)
          => (resp.code = "token_expired" /\ ~resp.handler)

\* C10 witness: an expired token of a deactivated user is answered with TokenExpired.
C10_Witness ==
    /\ resp.op = "get_me" /\ Presented
    /\ RespToken.exp < now
    /\ ~users[RespToken.user_id].is_active
    /\ resp.code = "token_expired"

\* C9 as stated: a refresh token at a protected route and an access token at the
\* refresh operation are each rejected with InvalidToken.
C9_TypeIsolation_Original ==
    /\ (resp.op \in ProtectedOps /\ Presented /\ RespToken.type = "refresh")
          => (resp.code = "invalid_token" /\ ~resp.handler)
    /\ (resp.op = "refresh" /\ Presented /\ RespToken.type = "access")
          => (resp.code = "invalid_token" /\ ~resp.issued)

\* C9 amended: a refresh token is never accepted at a protected route and an access
\* token is never exchanged by the refresh operation; the error is InvalidToken while
\* the token is unexpired and TokenExpired once its exp has passed.
C9_TypeIsolation ==
    LET expected == IF RespToken.exp <= now THEN "token_expired" ELSE "invalid_token"
    IN  /\ (resp.op \in ProtectedOps /\ Presented /\ RespToken.type = "refresh")
              => (resp.code = expected /\ ~resp.handler)
        /\ (resp.op = "refresh" /\ Presented /\ RespToken.type = "access")
              => (resp.code = expected /\ ~resp.issued /\ status_code(resp.code) = 401)

\* C9 witness: the refresh operation turned down an unexpired access token while
\* there was room to issue a new pair.
C9_Witness ==
    /\ resp.op = "refresh" /\ Presented
    /\ RespToken.type = "access" /\ RespToken.exp > now
    /\ resp.code = "invalid_token"
    /\ CanIssue

\* Every check that load_user_and_tenant makes ahead of the membership lookup passes
\* for an unexpired access token t.
PassesEarlierChecks(t) ==
    /\ t.type = "access" /\ t.exp > now
    /\ users[t.user_id].is_active
    /\ ~tenants[t.tenant_id].deleted
    /\ tenants[t.tenant_id].status # "suspended"

\* C5 as stated: a request whose token names a (user, tenant) pair without a
\* membership row fails with TenantAccessDenied, whatever else holds of the token.
C5_MembershipGate_Original ==
    (resp.op \in ProtectedOps /\ Presented /\ ~Member(RespToken))
        => resp.code = "tenant_access_denied"

\* C5 amended: a request whose token names a pair without a membership row is never
\* authenticated; it fails with TenantAccessDenied when every earlier check passes and
\* with the error of the first failing earlier check otherwise.
C5_MembershipGate ==
    (resp.op \in ProtectedOps /\ Presented /\ ~Member(RespToken))
        => /\ resp.code # "ok"
           /\ ~resp.handler
           /\ status_code(resp.code) \in {401, 403, 404}
           /\ PassesEarlierChecks(RespToken) => resp.code = "tenant_access_denied"

\* C5 witness: a request of a non-member was answered with TenantAccessDenied.
C5_Witness ==
    /\ resp.op \in ProtectedOps /\ Presented
    /\ ~Member(RespToken)
    /\ resp.code = "tenant_access_denied"

\* C6: membership is looked up on every request: with a token that passes every
\* earlier check, the request is authenticated exactly when the membership row exists
\* at that moment, and fails with TenantAccessDenied when it has been removed.
C6_MembershipRechecked ==
    (resp.op \in ProtectedOps /\ Presented /\ PassesEarlierChecks(RespToken))
        => IF Member(RespToken)
           THEN resp.code = "ok" /\ resp.handler
           ELSE resp.code = "tenant_access_denied" /\ ~resp.handler

\* C6 witness: a token issued to a seeded member is refused after the membership row
\* was removed, while the token is still unexpired.
C6_Witness ==
    /\ resp.op = "get_me" /\ Presented
    /\ <<RespToken.user_id, RespToken.tenant_id>> \in SeedTenantUsers
    /\ ~Member(RespToken)
    /\ RespToken.exp > now
    /\ resp.code = "tenant_access_denied"

\* C7 as stated: an unexpired access token for a suspended tenant fails with
\* TenantSuspended.
C7_SuspendedTenant_Original ==
    (/\ resp.op \in ProtectedOps /\ Presented
     /\ RespToken.type = "access" /\ RespToken.exp > now
     /\ tenants[RespToken.tenant_id].status = "suspended")
        => resp.code = "tenant_suspended"

\* C7 amended: an unexpired access token of an active user for a suspended tenant that
\* is not soft-deleted fails with TenantSuspended, with or without a membership row,
\* so the reason reported is the suspension and not a missing membership.
C7_SuspendedTenant ==
    (/\ resp.op \in ProtectedOps /\ Presented
     /\ RespToken.type = "access" /\ RespToken.exp > now
     /\ users[RespToken.user_id].is_active
     /\ ~tenants[RespToken.tenant_id].deleted
     /\ tenants[RespToken.tenant_id].status = "suspended")
        => (resp.code = "tenant_suspended" /\ ~resp.handler /\ status_code(resp.code) = 403)

\* C7 witness: a request for a suspended tenant by a user whose membership row is gone
\* was answered with TenantSuspended.
C7_Witness ==
    /\ resp.op = "get_me" /\ Presented
    /\ tenants[RespToken.tenant_id].status = "suspended"
    /\ ~Member(RespToken)
    /\ resp.code = "tenant_suspended"

\* C8: a request for a tenant whose status is suspended or canceled is denied.
C8_SuspendedAndCanceledDenied ==
    (/\ resp.op \in ProtectedOps /\ Presented
     /\ tenants[RespToken.tenant_id].status \in {"suspended", "canceled"})
        => (resp.code # "ok" /\ ~resp.handler)

\* C1: once logout has blacklisted the jti of access token T, every later request to a
\* protected route that presents T is rejected with 401 and its handler does not run.
C1_LoggedOutTokenRejected ==
    (/\ resp.op \in {"get_me", "logout_all", "switch_tenant"} /\ Presented
     /\ is_blacklisted(resp.jti))
        => (status_code(resp.code) = 401 /\ ~resp.handler)

\* C2: once logout-all has set revoked_at = R for user U, every access token of U with
\* iat < R is rejected on every later authenticated request.
C2_LogoutAllRevokesTokens ==
    (/\ resp.op \in {"get_me", "logout", "switch_tenant"} /\ Presented
     /\ RespToken.type = "access"
     /\ RevokedBefore(RespToken))
        => (resp.code # "ok" /\ ~resp.handler)

\* C3: a refresh token that is revoked (jti blacklisted, or iat before its user's
\* revoked_at) is never exchanged: the refresh operation fails and issues no tokens.
C3_RevokedRefreshNotExchanged ==
    (/\ resp.op = "refresh" /\ Presented
     /\ RespToken.type = "refresh"
     /\ (is_blacklisted(resp.jti) \/ RevokedBefore(RespToken)))
        => (resp.code # "ok" /\ ~resp.issued)

\* The assignments through which user_id holds permission perm in tenant_id.
Grants(user_id, tenant_id, perm) ==
    {ur \in user_roles : /\ ur.user_id = user_id
                         /\ ur.tenant_id = tenant_id
                         /\ <<ur.role_id, perm>> \in role_permissions}

\* C4: store-scope isolation: when every assignment through which U holds p in the
\* tenant is scoped to one store A, the aggregate for store A contains p and the
\* aggregate for any other store, or for no store, does not.
C4_StoreScopeIsolation ==
    \A perm \in PermissionNames :
        LET grants == Grants(perm_result.user_id, perm_result.tenant_id, perm)
        IN  (/\ perm_result.user_id # None
             /\ grants # {}
             /\ \E A \in StoreIds : \A ur \in grants : ur.store_id = A)
                => (perm \in perm_result.permissions
                        <=> \A ur \in grants : ur.store_id = perm_result.store_id)

\* C4 witness: the aggregate was computed for a store other than the one a granting
\* role is scoped to; it holds the user's tenant-wide permission but not the scoped one.
C4_Witness ==
    /\ perm_result.user_id # None
    /\ perm_result.store_id = "sB"
    /\ Grants(perm_result.user_id, perm_result.tenant_id, "products.create") # {}
    /\ \A ur \in Grants(perm_result.user_id, perm_result.tenant_id, "products.create") :
           ur.store_id = "sA"
    /\ perm_result.permissions = {"products.view"}

\* C13: tenant-wide grants apply everywhere: a permission that a role assigned to the
\* user with no store grants is in the aggregate for every store and for no store.
C13_TenantWideGrantsEverywhere ==
    \A perm \in PermissionNames :
        (/\ perm_result.user_id # None
         /\ \E ur \in Grants(perm_result.user_id, perm_result.tenant_id, perm) :
                ur.store_id = None)
            => perm \in perm_result.permissions

\* C13 witness: the aggregate computed for store sA holds a permission that reaches
\* the user only through a tenant-wide assignment.
C13_Witness ==
    /\ perm_result.user_id # None
    /\ perm_result.store_id = "sA"
    /\ Grants(perm_result.user_id, perm_result.tenant_id, "products.view") # {}
    /\ \A ur \in Grants(perm_result.user_id, perm_result.tenant_id, "products.view") :
           ur.store_id = None
    /\ "products.view" \in perm_result.permissions

\* C14: the aggregate is exactly the set of permission names of the roles assigned to
\* that user in that tenant tenant-wide or, when a store is supplied, for exactly that
\* store; nothing else contributes, and without a matching assignment it is empty.
C14_AggregateExact ==
    perm_result.user_id # None =>
        perm_result.permissions =
            {perm \in PermissionNames :
                \E ur \in user_roles :
                    /\ ur.user_id = perm_result.user_id
                    /\ ur.tenant_id = perm_result.tenant_id
                    /\ \/ ur.store_id = None
                       \/ perm_result.store_id # None /\ ur.store_id = perm_result.store_id
                    /\ <<ur.role_id, perm>> \in role_permissions}

\* C14 witness: the user holds a permission through an assignment in another tenant
\* and the aggregate, which is not empty, leaves it out.
C14_Witness ==
    /\ perm_result.user_id # None
    /\ perm_result.permissions # {}
    /\ \E ur \in user_roles, perm \in PermissionNames :
          /\ ur.user_id = perm_result.user_id
          /\ ur.tenant_id # perm_result.tenant_id
          /\ <<ur.role_id, perm>> \in role_permissions
          /\ perm \notin perm_result.permissions

\* The reason of the first failing check of identity resolution, in the documented
\* order, or "ok" when every check passes.
FirstFailingCheck(header) ==
    IF header = NoHeader THEN "unauthorized"
    ELSE IF header \notin tokens THEN "invalid_token"
    ELSE IF header.exp <= now THEN "token_expired"
    ELSE IF header.type # "access" THEN "invalid_token"
    ELSE IF header.user_id = None \/ header.tenant_id = None THEN "invalid_token"
    ELSE IF header.user_id \notin DOMAIN users THEN "user_not_found"
    ELSE IF ~users[header.user_id].is_active THEN "user_inactive"
    ELSE IF header.tenant_id \notin DOMAIN tenants THEN "tenant_not_found"
    ELSE IF tenants[header.tenant_id].deleted THEN "tenant_not_found"
    ELSE IF tenants[header.tenant_id].status = "suspended" THEN "tenant_suspended"
    ELSE IF ~Member(header) THEN "tenant_access_denied"
    ELSE "ok"

C19_LogoutBlacklistsToken ==
    (resp.op = "logout" /\ resp.code = "ok")
        => /\ is_blacklisted(resp.jti)
           /\ [jti |-> resp.jti, user_id |-> RespToken.user_id, token_type |-> "access",
               expires_at |-> RespToken.exp] \in blacklisted_tokens

\* C19 witness: a logout succeeded and its token's jti is in the blacklist.
C19_Witness ==
    /\ resp.op = "logout" /\ resp.code = "ok" /\ resp.handler
    /\ \E row \in blacklisted_tokens : row.jti = resp.jti

\* C20: logout invalidates only the presented token: a token of the same user with a
\* different jti, itself unexpired and not revoked, is still accepted after the logout.
C20_LogoutOnlyPresentedToken ==
    (/\ resp.op \in {"get_me", "switch_tenant"} /\ Presented
     /\ RespToken.type = "access" /\ RespToken.exp > now
     /\ ~is_blacklisted(resp.jti)
     /\ get_revocation_time(RespToken.user_id) = NoTime
     /\ \E row \in blacklisted_tokens :
           row.user_id = RespToken.user_id /\ row.jti # resp.jti)
        => (resp.handler /\ status_code(resp.code) # 401
            /\ (resp.op = "get_me" => resp.code = "ok"))

\* C20 witness: after the logout of one token of a user, a request with another token
\* of the same user was served.
C20_Witness ==
    /\ resp.op = "get_me" /\ Presented /\ resp.code = "ok"
    /\ ~is_blacklisted(resp.jti)
    /\ \E row \in blacklisted_tokens :
           row.user_id = RespToken.user_id /\ row.jti # resp.jti

\* C18: there is one revocation row per user and, over any sequence of logout-all and
\* password-reset calls, concurrent ones included, its revoked_at never decreases.
C18_RevocationMonotone ==
    [][\A u \in UserIds :
          /\ user_token_revocations[u] # NoTime => user_token_revocations'[u] # NoTime
          /\ user_token_revocations'[u] >= user_token_revocations[u]]_vars

\* C17: after any sequence of role-assignment operations there is at most one
\* UserRoleAssignment row per (user, role, store), a null store being one value.
C17_UniqueAssignment ==
    \A a, b \in user_roles :
        (a.user_id = b.user_id /\ a.role_id = b.role_id /\ a.store_id = b.store_id)
            => a = b

\* The store may be used by this user in this tenant: it belongs to the tenant, is
\* not soft-deleted, is active, and the user has a StoreAssignment row for it.
StoreUsable(store_id, tenant_id, user_id) ==
    /\ store_id \in DOMAIN stores
    /\ stores[store_id].tenant_id = tenant_id
    /\ ~stores[store_id].deleted
    /\ stores[store_id].is_active
    /\ <<user_id, store_id, tenant_id>> \in store_users

\* The steps of a request in their documented order.
PipelineOrder == <<"TenantMiddleware", "StoreMiddleware", "require_permission", "handler">>

\* C11: on a non-exempt route identity resolution runs first, then store resolution,
\* then the handler with its guard; a rejection in one of the first two steps is the
\* response, and neither the guard nor the handler runs.
C11_PipelineShortCircuit ==
    /\ \A header \in Headers, store_header \in StoreHeaders,
          permissions \in SUBSET PermissionNames, require_all \in BOOLEAN :
          LET r == handle_request(header, FALSE, store_header, permissions, require_all)
              identity == FirstFailingCheck(header)
              store_rejects == /\ identity = "ok"
                               /\ store_header \notin {None, ""}
                               /\ ~StoreUsable(store_header, header.tenant_id, header.user_id)
          IN  /\ r.steps = SubSeq(PipelineOrder, 1, Len(r.steps))
              /\ identity # "ok" => (r.code = identity /\ r.steps = <<"TenantMiddleware">>)
              /\ store_rejects => /\ r.code \in {"store_not_found", "store_access_denied"}
                                  /\ r.steps = <<"TenantMiddleware", "StoreMiddleware">>
              /\ (identity = "ok" /\ ~store_rejects) => Len(r.steps) >= 3
              /\ Len(r.steps) = 4 <=> r.code = "ok"
    /\ (resp.op = "request" /\ resp.code # "ok") => ~resp.handler

\* C11 witness: a request whose identity resolution passed was turned down by store
\* resolution, and the handler did not run.
C11_Witness ==
    /\ resp.op = "request" /\ Presented
    /\ FirstFailingCheck(RespToken) = "ok"
    /\ resp.code = "store_not_found"
    /\ ~resp.handler

\* C12: store context is established only if X-Store-ID is present, identity
\* resolution succeeded and the store is usable by the user in the tenant; a malformed
\* id and a foreign, deleted or inactive store are rejected with StoreNotFound, a
\* missing assignment with StoreAccessDenied.  (An empty header value counts as absent.)
C12_StoreContext ==
    \A header \in Headers, exempt \in BOOLEAN, store_header \in StoreHeaders :
        LET r == handle_request(header, exempt, store_header, {}, TRUE)
            identity_ok == ~exempt /\ FirstFailingCheck(header) = "ok"
            known == store_header \in DOMAIN stores
        IN  /\ r.g.store # None =>
                  /\ store_header = r.g.store
                  /\ identity_ok
                  /\ StoreUsable(store_header, header.tenant_id, header.user_id)
            /\ (identity_ok /\ store_header \notin {None, ""}) =>
                  IF \/ ~known
                     \/ stores[store_header].tenant_id # header.tenant_id
                     \/ stores[store_header].deleted
                     \/ ~stores[store_header].is_active
                  THEN r.code = "store_not_found" /\ r.g.store = None
                  ELSE IF <<header.user_id, store_header, header.tenant_id>> \notin store_users
                       THEN r.code = "store_access_denied" /\ r.g.store = None
                       ELSE r.g.store = store_header
            /\ (identity_ok /\ store_header \in {None, ""}) =>
                  r.g.store = None /\ r.code \notin {"store_not_found", "store_access_denied"}

\* C12 witness: an authenticated request named a live store of its tenant for which the
\* user has no assignment and was answered with StoreAccessDenied.
C12_Witness ==
    /\ resp.op = "request" /\ Presented
    /\ resp.code = "store_access_denied"
    /\ status_code(resp.code) = 403
    /\ ~resp.handler

\* The guard's decision as documented.
GuardAllows(ctx, permissions, require_all) ==
    LET effective == get_user_permissions(ctx.user, ctx.tenant, ctx.store)
    IN  /\ ctx.user # None
        /\ ctx.tenant # None
        /\ IF require_all THEN permissions \subseteq effective
           ELSE permissions \cap effective # {}

\* C15: the permission guard lets the handler run exactly when user and tenant context
\* are present and the effective permission set of the request's user, tenant and
\* store holds every listed permission (require-all) or one of them (require-any);
\* otherwise it fails with Unauthorized, Forbidden or InsufficientPermissions.
C15_PermissionGuard ==
    /\ \A user \in UserIds \cup {None}, tenant \in TenantIds \cup {None},
          store \in StoreIds \cup {None},
          permissions \in SUBSET PermissionNames, require_all \in BOOLEAN :
          LET ctx == [user |-> user, tenant |-> tenant, store |-> store]
              out == require_permission(ctx, permissions, require_all)
          IN  /\ out = None <=> GuardAllows(ctx, permissions, require_all)
              /\ out # None =>
                    out = IF user = None THEN "unauthorized"
                          ELSE IF tenant = None THEN "forbidden"
                          ELSE "insufficient_permissions"
    /\ \A header \in Headers, exempt \in BOOLEAN, store_header \in StoreHeaders,
          permissions \in SUBSET PermissionNames, require_all \in BOOLEAN :
          LET r == handle_request(header, exempt, store_header, permissions, require_all)
          IN  (\E i \in DOMAIN r.steps : r.steps[i] = "handler")
                  <=> /\ preprocess_request(header, exempt, store_header).err = None
                      /\ GuardAllows(r.g, permissions, require_all)

\* C15 witness: an authenticated user holding a role with a permission was refused by
\* the guard for lack of another one.
C15_Witness ==
    /\ resp.op = "request" /\ Presented
    /\ resp.code = "insufficient_permissions"
    /\ ~resp.handler
    /\ \E ur \in user_roles, perm \in PermissionNames :
          ur.user_id = RespToken.user_id /\ <<ur.role_id, perm>> \in role_permissions

\* C21: logout-all does not lock the user out: an unexpired access token of the user
\* whose iat is later than the user's revoked_at (and which was not itself logged out)
\* is accepted on an authenticated request.
C21_NewTokenAfterLogoutAll ==
    (/\ resp.op = "get_me" /\ Presented
     /\ RespToken.type = "access" /\ RespToken.exp > now
     /\ ~is_blacklisted(RespToken.jti)
     /\ get_revocation_time(RespToken.user_id) # NoTime
     /\ RespToken.iat > get_revocation_time(RespToken.user_id))
        => (resp.code = "ok" /\ resp.handler)

\* C21 witness: after a logout-all of the user, a token issued later was accepted.
C21_Witness ==
    /\ resp.op = "get_me" /\ Presented
    /\ get_revocation_time(RespToken.user_id) # NoTime
    /\ RespToken.iat > get_revocation_time(RespToken.user_id)
    /\ resp.code = "ok" /\ resp.handler

\* The user, tenant and membership a token names are all in place: the user is active,
\* the tenant is not soft-deleted and the membership row exists.
PairInPlace(t) ==
    /\ t.user_id \in DOMAIN users /\ users[t.user_id].is_active
    /\ t.tenant_id \in DOMAIN tenants /\ ~tenants[t.tenant_id].deleted
    /\ Member(t)

\* C22: refresh issues a new pair only if, at the time of the call, the refresh
\* token's user is active, its tenant is not soft-deleted and the membership row exists;
\* otherwise it fails with 401 and issues nothing.
C22_RefreshRechecksPair ==
    resp.op = "refresh" =>
        /\ resp.issued => (Presented /\ RespToken.type = "refresh" /\ PairInPlace(RespToken))
        /\ (Presented /\ ~PairInPlace(RespToken))
              => (status_code(resp.code) = 401 /\ ~resp.issued)
        /\ (Presented /\ RespToken.type = "refresh" /\ RespToken.exp > now
                /\ PairInPlace(RespToken))
              => (resp.code = "ok" /\ resp.issued)

\* C22 witness: an unexpired refresh token of a user deactivated since it was issued
\* was turned down with 401 while there was room to issue a pair.
C22_Witness ==
    /\ resp.op = "refresh" /\ Presented
    /\ RespToken.type = "refresh" /\ RespToken.exp > now
    /\ ~users[RespToken.user_id].is_active
    /\ Member(RespToken)
    /\ resp.code = "invalid_token" /\ ~resp.issued
    /\ CanIssue

\* C23: cleanup deletes exactly the rows whose expires_at is before its cutoff and is
\* idempotent; in every step of every interleaving of cleanup runs and logouts, the
\* blacklist row of a token that has not yet expired stays in the table.
C23_CleanupKeepsUnexpired ==
    /\ [](\A cutoff \in 0..MaxTime :
             LET kept == cleanup_expired(blacklisted_tokens, cutoff)
             IN  /\ kept = blacklisted_tokens \ {row \in blacklisted_tokens :
                                                    row.expires_at < cutoff}
                 /\ cleanup_expired(kept, cutoff) = kept
                 /\ cutoff <= now =>
                       \A t \in tokens : t.exp > now =>
                           ((\E row \in kept : row.jti = t.jti) <=> is_blacklisted(t.jti)))
    /\ [][\A t \in tokens :
             (t.exp > now' /\ is_blacklisted(t.jti))
                 => \E row \in blacklisted_tokens' : row.jti = t.jti]_vars

\* C23 witness: a cleanup run deleted a row while another run was in progress, and the
\* row of a token that has not yet expired is still in the table.
C23_Witness ==
    /\ \E c \in CallerIds : cleanup_calls[c].pc = "idle" /\ cleanup_calls[c].deleted > 0
    /\ \E c \in CallerIds : cleanup_calls[c].pc = "delete"
    /\ \E t \in tokens : t.exp > now /\ is_blacklisted(t.jti)

\* C24: a bootstrap call succeeds only if no user exists when it creates its user, in
\* every interleaving of bootstrap and register requests.
C24_BootstrapOnlyWhenEmpty ==
    [][(resp'.op = "bootstrap" /\ resp'.code = "created") => DOMAIN users = {}]_vars

\* The endpoints the allow-list is meant for: health checks, login, registration,
\* token refresh and bootstrap.
AllowListedEndpoints == {"health", "health_db", "login", "register", "refresh", "bootstrap"}

\* C25: a request to an allow-listed path is never rejected by identity resolution,
\* whatever the Authorization and X-Store-ID headers, and reaches its handler with no
\* user, tenant or store context.
C25_ExemptPathsReachHandler ==
    /\ \A r \in url_map, header \in Headers, store_header \in StoreHeaders :
          r.endpoint \in AllowListedEndpoints =>
              LET d == full_dispatch_request(r.path, header, store_header)
              IN  d.handler /\ d.code = "ok" /\ d.g = EmptyContext
    /\ resp.op \in AllowListedEndpoints \ {"login", "refresh"}
          => (resp.handler /\ resp.code = "ok")

\* C25 witness: a health check that presented an expired token reached its handler.
C25_Witness ==
    /\ resp.op = "health_db" /\ Presented
    /\ RespToken.exp <= now
    /\ resp.handler /\ resp.code = "ok"

\* C26: forgot-password needs no authentication: a request without an Authorization
\* header reaches the handler and is answered 200.
C26_ForgotPasswordPublic ==
    LET d == full_dispatch_request(<<"/api/v1/auth", "/forgot-password">>, NoHeader, None)
    IN  d.handler /\ status_code(d.code) = 200

\* C27: no UserRoleAssignment row references a soft-deleted role, and the permissions
\* of a soft-deleted role are in no effective permission set.
C27_NoAssignmentToDeletedRole ==
    /\ \A ur \in user_roles : ~roles[ur.role_id].deleted
    /\ \A perm \in perm_result.permissions :
          \E ur \in user_roles :
              /\ ur.user_id = perm_result.user_id
              /\ <<ur.role_id, perm>> \in role_permissions
              /\ ~roles[ur.role_id].deleted

\* C28: every token pair issued names a (user, tenant) pair such that, when it is
\* issued, the user is active, the tenant is not soft-deleted and the membership row
\* exists.
C28_IssuedForPairInPlace ==
    [][\A t \in tokens' \ tokens :
          /\ t.user_id \in DOMAIN users' /\ users'[t.user_id].is_active
          /\ t.tenant_id \in DOMAIN tenants' /\ ~tenants'[t.tenant_id].deleted
          /\ <<t.user_id, t.tenant_id>> \in tenant_users']_vars

\* C29: a permission that the user holds in the tenant only through roles scoped to
\* a store opens a guarded route only when the request names that store and, at that
\* request, the store is of the tenant, not deleted, active, and assigned to the user;
\* once the user is removed from the store or the store is deactivated or deleted, the
\* same request is refused although the user_roles row is still there.
C29_StoreScopedNeedsStoreAccess ==
    \A header \in tokens, store_header \in StoreHeaders, perm \in PermissionNames :
        LET r == handle_request(header, FALSE, store_header, {perm}, TRUE)
        IN  (/\ r.code = "ok"
             /\ perm \notin get_user_permissions(header.user_id, header.tenant_id, None))
            => /\ StoreUsable(store_header, header.tenant_id, header.user_id)
               /\ \E ur \in user_roles :
                     /\ ur.user_id = header.user_id /\ ur.tenant_id = header.tenant_id
                     /\ ur.store_id = store_header
                     /\ <<ur.role_id, perm>> \in role_permissions

\* A request naming a store was refused for u1, to whom store sA is assigned in the
\* seeded data and who still holds a role scoped to sA that grants a permission held
\* no other way, after u1 was removed from sA or sA was deactivated or deleted.
C29_Witness ==
    /\ resp.op = "request" /\ Presented
    /\ RespToken.user_id = "u1"
    /\ resp.code \in {"store_access_denied", "store_not_found"}
    /\ ~StoreUsable("sA", RespToken.tenant_id, RespToken.user_id)
    /\ \E ur \in user_roles, perm \in PermissionNames :
          /\ ur.user_id = RespToken.user_id /\ ur.tenant_id = RespToken.tenant_id
          /\ ur.store_id = "sA"
          /\ <<ur.role_id, perm>> \in role_permissions
          /\ perm \notin get_user_permissions(RespToken.user_id, RespToken.tenant_id, None)

\* C30: logout is idempotent: a logout repeated with an access token whose jti is
\* already in the blacklist is answered with success again and leaves exactly one
\* blacklist row for that jti.
C30_LogoutIdempotent ==
    [][(resp'.op = "logout" /\ resp'.handler /\ is_blacklisted(resp'.jti))
          => /\ resp'.code = "ok"
             /\ Cardinality({row \in blacklisted_tokens' : row.jti = resp'.jti}) = 1]_vars

====
